---- MODULE Spec2Model ----
(***************************************************************************)
(* Model of the await runner (policy-aware Supervisor) of runreveal/lib:   *)
(* src/unnamed/part_001.  One Supervisor object is constructed by New,     *)
(* tasks are registered with Add / AddNamed, and Run spawns one goroutine  *)
(* per task, selects on {signal, scope done, completion record}, cancels   *)
(* the child scope and drains with waitOrTimeout.                          *)
(*                                                                         *)
(* Errors are modelled as wrap chains: a sequence of labels, outermost     *)
(* first; the empty sequence is the nil error.  errors.Is walks the chain. *)
(* Durations are in milliseconds.                                          *)
(***************************************************************************)
EXTENDS Integers, Sequences, FiniteSets, TLC

\* ------------------------------------------------------------------ bounds
\* Largest number of tasks registered before Run.
NumTasks == 2

\* ------------------------------------------------------- program constants
\* 10 * time.Second, the default stop timeout (ms).
DefaultStopTimeout == 10000
\* 100 * time.Millisecond, the drain loop's step and sleep (ms).
PollInterval == 100

\* Stop timeouts handed to WithStopTimeout (0 is the unset field).
StopTimeouts == {150}
\* The stop timeouts New may leave in the runner: a negative one, the unset
\* field, one below the poll interval and one above it (ms).
StopTimeoutArgs == {-50, 0, 50, 150}
\* What a registered task function does: "free" may return at any moment,
\* "ctxbound" blocks on its scope and returns only once the scope is done.
TaskKinds == {"free", "ctxbound"}
\* The task functions handed to Add, and the <<function, name>> pairs handed
\* to AddNamed.
AddArgs == {"free"}
AddNamedArgs == {<<"ctxbound", "svc">>}
\* syscall.SIGINT, syscall.SIGTERM
Signals == {"SIGINT", "SIGTERM"}
\* await.go: the argument of WithStopTimeout, the options New may be given
\* (stopTimeout 0: WithStopTimeout not passed), the task kinds and the bounds.
AwStopTimeoutArgs == {50}
AwOptions == [signals : BOOLEAN, stopTimeout : {0} \cup AwStopTimeoutArgs]
AwNoOptions == [signals |-> FALSE, stopTimeout |-> 0]
AwTaskKinds == {"free", "ctxbound", "stubborn"}
MaxAwTasks == 1
AwTasks == 1..MaxAwTasks
AwDefaultStopTimeout == 10000
AwTick == 10
\* ------------------------------------------------------- loader: values
\* Strings are sequences of characters, so that a prefix can be cut.
PlainString == <<"g", "o">>
DollarT == <<"$", "T">>
ConfigStrings == {PlainString, DollarT}
\* The process environment: T is set, nothing else.
Environ == [n \in {<<"T">>} |-> <<"g", "y", "m">>]
\* os.Getenv
Getenv(n) == IF n \in DOMAIN Environ THEN Environ[n] ELSE << >>
\* strings.HasPrefix(val, "$")
HasDollarPrefix(val) == Len(val) >= 1 /\ val[1] = "$"
\* strings.CutPrefix(val, "$")
CutDollarPrefix(val) == IF HasDollarPrefix(val) THEN Tail(val) ELSE val

\* The two interface types of the test, and reflect.TypeOf(new(T)).String().
LoaderTypes == {"Source", "Destination"}
TypStr(T) == IF T = "Source" THEN "*loader_test.Source"
             ELSE "*loader_test.Destination"
\* Factories, each typed by its T: two for Source, one for Destination.
Factories ==
    { [typ |-> "Source", id |-> "srcConfigA"],
      [typ |-> "Source", id |-> "srcConfigB"],
      [typ |-> "Destination", id |-> "dstConfigA"] }
\* Names factories are registered under; the inputs use the same names, and
\* a name is unknown to a load when nothing was registered under it before.
RegNames(T) == IF T = "Source" THEN {"a", "b"} ELSE {"a"}
\* The elements an input may hold for a []Loader[T] field.
Elems(T) ==
    { [hasType |-> TRUE, type |-> n, field |-> x] :
          n \in RegNames(T), x \in ConfigStrings }
    \cup (IF T = "Source"
            THEN { [hasType |-> FALSE, type |-> "", field |-> DollarT] }
            ELSE {})
MaxSources == 2
MaxDestinations == 1
SeqsUpTo(S, n) == UNION { [1..k -> S] : k \in 0..n }
\* The inputs of LoadConfig: malformed bytes, or a document with a name, a
\* list of sources and a list of destinations.
MalformedInput ==
    [malformed |-> TRUE, name |-> << >>, sources |-> << >>,
     destinations |-> << >>]
Inputs ==
    {MalformedInput} \cup
    { [malformed |-> FALSE, name |-> nm, sources |-> ss, destinations |-> ds] :
          nm \in ConfigStrings,
          ss \in SeqsUpTo(Elems("Source"), MaxSources),
          ds \in SeqsUpTo(Elems("Destination"), MaxDestinations) }

\* reflect values: strings (settable or not), pointers, structs, slices and
\* interfaces; a nil pointer or interface holds NilValue.
NilValue == [k |-> "invalid"]
StringV(set, val) == [k |-> "string", set |-> set, v |-> val]
PtrV(e) == [k |-> "ptr", e |-> e]
StructV(fs) == [k |-> "struct", f |-> fs]
SliceV(es) == [k |-> "slice", e |-> es]
IfaceV(e) == [k |-> "iface", e |-> e]
\* var actual Config, and &actual
ZeroConfig == PtrV(StructV(<<StringV(TRUE, << >>), SliceV(<< >>), SliceV(<< >>)>>))

\* Calls made once Run has started (at most MaxLateCalls of them).
LateOps == {"Add", "AddNamed", "Run"}
MaxLateCalls == 2

Tasks == 1..NumTasks

\* ------------------------------------------------------------------ errors
Nil == << >>
Canceled == <<"context canceled">>
DeadlineExceeded == <<"context deadline exceeded">>
\* The error value that is task t's own failure.
Boom(t) == <<"boom" \o ToString(t)>>
\* A task error wrapping context.Canceled (fmt.Errorf("...: %w", ctx.Err())).
WrapsCanceled == <<"task stopped", "context canceled">>
\* The values a task function of each kind returns: nil, its own failure, and
\* a cancellation error, which a ctxbound function returns bare (ctx.Err())
\* and a free one wrapped (the failure of an inner call it had cancelled).
TaskErrs(t, kind) ==
    {Nil, Boom(t)} \cup (IF kind = "ctxbound" THEN {Canceled} ELSE {WrapsCanceled})

\* errors.Is(err, target) for a sentinel target: some link of the chain is it.
ErrorsIs(err, target) == \E k \in 1..Len(err) : err[k] = target[1]

\* Faulty variant of ShutdownTimeout: the cause is not wrapped.
ShutdownTimeoutDropsCause(err) == <<"await: shutdown timeout">>

\* fmt.Errorf("await: shutdown timeout: %w", err)
ShutdownTimeout(err) == <<"await: shutdown timeout">> \o err
\* http.ErrServerClosed, what ListenAndServe returns once Shutdown was called.
ErrServerClosed == <<"http: Server closed">>
\* Any other error of ListenAndServe.
ListenFailed == <<"listen tcp: address already in use">>
\* The deadline of the context handed to server.Shutdown, in milliseconds.
ShutdownDeadline == 10000
\* No context made yet.
NoContext == [parent |-> "none", timeout |-> 0]
\* The ways Run ends the scope it hands to a task: <<ctx.Err(), cause>>.
ScopeStops ==
    { <<Canceled, Canceled>>, <<DeadlineExceeded, DeadlineExceeded>>,
      <<Canceled, <<"await">> >>, <<Canceled, <<"await", "boom1">> >> }

\* fmt.Errorf("await: %w", err), the cause handed to cancel.
AwaitCause(err) == <<"await">> \o err

VARIABLES
    funcs,        \* r.funcs: the registered task functions, in order
    funcNames,    \* r.funcNames
    withSignals,  \* r.withSignals
    proceedOnNil, \* r.proceedOnNil
    stopTimeout,  \* r.stopTimeout
    started,      \* r.started
    rpc,          \* position of the goroutine that called Run
    idx,          \* the spawn loop's index (1-based)
    waitCount,    \* the outstanding counter
    errc,         \* the completion channel's buffer
    tpc,          \* position of each task goroutine
    terr,         \* the error each task function returned
    logs,         \* the diagnostic records each task goroutine has emitted
    failedLive,   \* history: some task function returned a non-nil,
                  \* non-cancellation error while subctx was not yet done
    parent,       \* the parent scope: "live", "canceled" or "deadline"
    subErr,       \* subctx.Err()
    subCause,     \* context.Cause(subctx)
    notified,     \* signal.Notify(sigc, ...) is installed
    sigc,         \* sigc's buffer (capacity 1)
    via,          \* the select case that left the loop
    err,          \* Run's err when the loop is left (the adopted cause)
    elapsed,      \* waitOrTimeout's i
    drainExit,    \* how waitOrTimeout returned: "zero" or "deadline"
    wres,         \* what waitOrTimeout returned
    result,       \* what Run returned
    startMu,      \* r.startMu: "free" or "held"
    late,         \* calls of Add, AddNamed and Run made once Run has started
    apc,          \* ListenAndServe's task function: position
    spc,          \* the goroutine calling server.ListenAndServe(): position
    serveRet,     \* what server.ListenAndServe() returned
    serveErrc,    \* the adapter's errc buffer (capacity 1)
    ctxErr,       \* ctx.Err() of the adapter's scope
    ctxCause,     \* context.Cause(ctx) of the adapter's scope
    cancelFirst,  \* history: the scope was cancelled before serve returned
    stopCalls,    \* number of server.Shutdown calls made
    cto,          \* the context handed to server.Shutdown
    stopErr,      \* what server.Shutdown returned
    ares,         \* what the adapter's task function returned
    \* The runner of src/await/await.go (prefix aw):
    awOpts,        \* the options passed to New
    awWithSignals, \* r.withSignals
    awStopTimeout, \* r.stopTimeout
    awStarted,     \* r.started
    awFuncs,       \* r.funcs
    awPc,          \* position of the goroutine that called Run
    awTpc,         \* position of each task goroutine
    awTerr,        \* the error each task function returned
    awWaitCount,   \* waitCount
    awErrc,        \* errc's buffer
    awNotified,    \* signal.Notify is installed
    awSigc,        \* sigc's buffer
    awParent,      \* the parent scope: "live" or "canceled"
    awCtxErr,      \* Err() of the scope derived in Run
    awErr,         \* Run's err after the select
    awElapsed,     \* time spent in waitOrTimeout, in milliseconds
    awResult,      \* what Run returned
    \* The loader package:
    registry,      \* registry.m: type string -> (name -> factory)
    lpc,           \* "idle" until LoadConfig has been called, then "loaded"
    linput,        \* the bytes LoadConfig was given
    cfg,           \* the config value LoadConfig was given a pointer to
    lerr,          \* what LoadConfig returned
    replaced,      \* replaceEnv was called
    \* The rpc package:
    call           \* one call value made by RPC, the package's error registry
                   \* and the request its handler is serving

vars == <<funcs, funcNames, withSignals, proceedOnNil, stopTimeout, started,
          rpc, idx, waitCount, errc, tpc, terr, logs, failedLive, parent, subErr,
          subCause,
          notified, sigc, via, err, elapsed, drainExit, wres, result,
          startMu, late, apc, spc, serveRet, serveErrc, ctxErr, ctxCause,
          cancelFirst, stopCalls, cto, stopErr, ares,
          awOpts, awWithSignals, awStopTimeout, awStarted, awFuncs, awPc, awTpc,
          awTerr, awWaitCount, awErrc, awNotified, awSigc, awParent, awCtxErr,
          awErr, awElapsed, awResult, registry, lpc, linput, cfg, lerr, replaced,
          call>>

cfgVars == <<funcs, funcNames, withSignals, proceedOnNil>>
taskVars == <<tpc, terr, logs, failedLive>>
ctxVars == <<parent, subErr, subCause>>
sigVars == <<notified, sigc>>
drainVars == <<elapsed, drainExit, wres, result>>
misuseVars == <<startMu, late>>
serveVars == <<apc, spc, serveRet, serveErrc, ctxErr, ctxCause, cancelFirst,
               stopCalls, cto, stopErr, ares>>
awVars == <<awOpts, awWithSignals, awStopTimeout, awStarted, awFuncs, awPc, awTpc,
            awTerr, awWaitCount, awErrc, awNotified, awSigc, awParent, awCtxErr,
            awErr, awElapsed, awResult>>
ldVars == <<registry, lpc, linput, cfg, lerr, replaced>>
rpcVars == <<call>>
libVars == <<awVars, ldVars, rpcVars>>
auxVars == <<misuseVars, serveVars, libVars>>
runVars == <<cfgVars, stopTimeout, started, rpc, idx, waitCount, errc, taskVars,
             ctxVars, sigVars, via, err, drainVars>>
partVars == <<runVars, misuseVars, serveVars>>

\* Number of registered tasks, len(r.funcs).
N == Len(funcs)

\* subctx.Done() is closed.
SubDone == subErr # Nil

\* Faulty variant of ErrcCap: room for one record fewer than the tasks.
ErrcCapShort == N - 1

\* cap(errc): errc := make(chan error, len(r.funcs))
ErrcCap == N

\* The loader package after its initialisation: an empty registry.
InitLoader ==
    /\ registry = << >>
    /\ lpc = "idle"
    /\ linput = MalformedInput
    /\ cfg = ZeroConfig
    /\ lerr = Nil
    /\ replaced = FALSE

\* The rpc package after RPC(callme) without options: no hooks, an empty
\* error registry, no request being served.
InitCall ==
    call = [pc |-> "idle", prehook |-> FALSE, posthook |-> FALSE,
            errorRegistry |-> << >>,
            rw |-> [status |-> 0, responseSize |-> 0, wrapped |-> << >>],
            trace |-> << >>, resp |-> "zero", err |-> << >>,
            hooked |-> << >>, e2 |-> << >>]

\* await.go's New(opts...): the options are not applied, the runner has its
\* zero values.
AwNew(opts) ==
    /\ awOpts = opts
    /\ awWithSignals = FALSE
    /\ awStopTimeout = 0
    /\ awStarted = FALSE
    /\ awFuncs = << >>
    /\ awPc = "new"
    /\ awTpc = [t \in AwTasks |-> "none"]
    /\ awTerr = [t \in AwTasks |-> Nil]
    /\ awWaitCount = 0
    /\ awErrc = << >>
    /\ awNotified = FALSE
    /\ awSigc = << >>
    /\ awParent = "live"
    /\ awCtxErr = Nil
    /\ awErr = Nil
    /\ awElapsed = 0
    /\ awResult = Nil

\* New(opts...): the zero runner with the options applied.
InitRunnerFrom(timeouts) ==
    /\ funcs = << >>
    /\ funcNames = << >>
    /\ withSignals \in BOOLEAN
    /\ proceedOnNil \in BOOLEAN
    /\ stopTimeout \in timeouts
    /\ started = FALSE
    /\ rpc = "new"
    /\ idx = 1
    /\ waitCount = 0
    /\ errc = << >>
    /\ tpc = [t \in Tasks |-> "none"]
    /\ terr = [t \in Tasks |-> Nil]
    /\ logs = [t \in Tasks |-> << >>]
    /\ failedLive = FALSE
    /\ parent = "live"
    /\ subErr = Nil
    /\ subCause = Nil
    /\ notified = FALSE
    /\ sigc = << >>
    /\ via = "none"
    /\ err = Nil
    /\ elapsed = 0
    /\ drainExit = "none"
    /\ wres = Nil
    /\ result = Nil
    /\ startMu = "free"
    /\ late = << >>
    /\ apc = "start"
    /\ spc = "none"
    /\ serveRet = Nil
    /\ serveErrc = << >>
    /\ ctxErr = Nil
    /\ ctxCause = Nil
    /\ cancelFirst = FALSE
    /\ stopCalls = 0
    /\ cto = NoContext
    /\ stopErr = Nil
    /\ ares = Nil

\* The runner as New made it with WithStopTimeout(d), d in StopTimeouts.
InitRunner == InitRunnerFrom(StopTimeouts)

\* The runner of part_001 as New made it, and an await.go runner made with no
\* options.
Init == InitRunner /\ AwNew(AwNoOptions) /\ InitLoader /\ InitCall

\* r.Add(f)
Add(f) ==
    /\ rpc = "new"
    /\ startMu = "free"
    /\ ~started
    /\ Len(funcs) < NumTasks
    /\ funcs' = Append(funcs, f)
    /\ funcNames' = Append(funcNames, "")
    /\ UNCHANGED <<auxVars, withSignals, proceedOnNil, stopTimeout, started, rpc, idx,
                   waitCount, errc, taskVars, ctxVars, sigVars, via, err,
                   drainVars>>

\* r.AddNamed(f, name)
AddNamed(f, name) ==
    /\ rpc = "new"
    /\ startMu = "free"
    /\ ~started
    /\ Len(funcs) < NumTasks
    /\ funcs' = Append(funcs, f)
    /\ funcNames' = Append(funcNames, name)
    /\ UNCHANGED <<auxVars, withSignals, proceedOnNil, stopTimeout, started, rpc, idx,
                   waitCount, errc, taskVars, ctxVars, sigVars, via, err,
                   drainVars>>

\* Faulty variant of RunStart: the stop timeout is used as configured.
RunStartNoDefault ==
    /\ rpc = "new"
    /\ startMu = "free"
    /\ ~started
    /\ started' = TRUE
    /\ errc' = << >>
    /\ subErr' = IF parent = "canceled" THEN Canceled
                 ELSE IF parent = "deadline" THEN DeadlineExceeded ELSE Nil
    /\ subCause' = subErr'
    /\ waitCount' = 0
    /\ idx' = 1
    /\ rpc' = "inc"
    /\ UNCHANGED <<auxVars, cfgVars, stopTimeout, taskVars, parent, sigVars, via,
                   err, drainVars>>

\* Run, up to the spawn loop: started is set, the stop timeout defaulted,
\* errc made, and subctx derived from the parent scope.
RunStart ==
    /\ rpc = "new"
    /\ startMu = "free"
    /\ ~started
    /\ started' = TRUE
    /\ stopTimeout' = IF stopTimeout <= 0 THEN DefaultStopTimeout ELSE stopTimeout
    /\ errc' = << >>
    /\ subErr' = IF parent = "canceled" THEN Canceled
                 ELSE IF parent = "deadline" THEN DeadlineExceeded ELSE Nil
    /\ subCause' = subErr'
    /\ waitCount' = 0
    /\ idx' = 1
    /\ rpc' = "inc"
    /\ UNCHANGED <<auxVars, cfgVars, taskVars, parent, sigVars, via, err, drainVars>>

\* The spawn loop's atomic.AddInt32(&waitCount, 1) for task idx.
SpawnInc ==
    /\ rpc = "inc"
    /\ idx <= N
    /\ waitCount' = waitCount + 1
    /\ rpc' = "go"
    /\ UNCHANGED <<auxVars, cfgVars, stopTimeout, started, idx, errc, taskVars, ctxVars,
                   sigVars, via, err, drainVars>>

\* Faulty variant of SpawnGo: the goroutine uses the loop's last function
\* instead of the one of this turn.
SpawnGoLast ==
    /\ rpc = "go"
    /\ tpc' = [tpc EXCEPT ![N] = "running"]
    /\ idx' = idx + 1
    /\ rpc' = "inc"
    /\ UNCHANGED <<auxVars, cfgVars, stopTimeout, started, waitCount, errc, terr,
                   logs, failedLive, ctxVars,
                   sigVars, via, err, drainVars>>

\* The spawn loop's go statement for task idx.
SpawnGo ==
    /\ rpc = "go"
    /\ tpc' = [tpc EXCEPT ![idx] = "running"]
    /\ idx' = idx + 1
    /\ rpc' = "inc"
    /\ UNCHANGED <<auxVars, cfgVars, stopTimeout, started, waitCount, errc, terr,
                   logs, failedLive, ctxVars,
                   sigVars, via, err, drainVars>>

\* Faulty variant of SetupSignals: the subscription is installed whatever
\* withSignals says.
SetupSignalsAlways ==
    /\ rpc = "inc"
    /\ idx > N
    /\ notified' = TRUE
    /\ sigc' = << >>
    /\ rpc' = "select"
    /\ UNCHANGED <<auxVars, cfgVars, stopTimeout, started, idx, waitCount, errc, taskVars,
                   ctxVars, via, err, drainVars>>

\* After the loop: sigc is made and signal.Notify installed if withSignals.
SetupSignals ==
    /\ rpc = "inc"
    /\ idx > N
    /\ notified' = withSignals
    /\ sigc' = << >>
    /\ rpc' = "select"
    /\ UNCHANGED <<auxVars, cfgVars, stopTimeout, started, idx, waitCount, errc, taskVars,
                   ctxVars, via, err, drainVars>>

\* ------------------------------------------------------------ environment
\* The caller cancels the parent scope; the cancellation reaches subctx at
\* once.  (An end of the parent after subctx is done changes nothing that Run
\* or a task can read, and is left out.)
ParentCancel ==
    /\ parent = "live"
    /\ ~SubDone
    /\ parent' = "canceled"
    /\ IF started
         THEN subErr' = Canceled /\ subCause' = Canceled
         ELSE UNCHANGED <<subErr, subCause>>
    /\ UNCHANGED <<auxVars, cfgVars, stopTimeout, started, rpc, idx, waitCount, errc,
                   taskVars, sigVars, via, err, drainVars>>

\* The parent scope's deadline expires.
ParentDeadline ==
    /\ parent = "live"
    /\ ~SubDone
    /\ parent' = "deadline"
    /\ IF started
         THEN subErr' = DeadlineExceeded /\ subCause' = DeadlineExceeded
         ELSE UNCHANGED <<subErr, subCause>>
    /\ UNCHANGED <<auxVars, cfgVars, stopTimeout, started, rpc, idx, waitCount, errc,
                   taskVars, sigVars, via, err, drainVars>>

\* The process receives SIGINT or SIGTERM while the subscription is
\* installed: os/signal does a non-blocking send on sigc.  (Once the loop is
\* left sigc is never received from again; a signal after that is left out.)
OSSignal(sig) ==
    /\ notified
    /\ rpc \in {"select", "check"}
    /\ Len(sigc) < 1
    /\ sigc' = Append(sigc, sig)
    /\ UNCHANGED <<auxVars, cfgVars, stopTimeout, started, rpc, idx, waitCount, errc,
                   taskVars, ctxVars, notified, via, err, drainVars>>

\* ------------------------------------------------------------------ tasks
\* The slog.Info records task t's goroutine emits for the error e: one, with
\* the task's name, if e is neither nil nor a cancellation, none otherwise.
LogRecords(t, e) ==
    IF e # Nil /\ ~ErrorsIs(e, Canceled)
      THEN << [name |-> funcNames[t], err |-> e] >>
      ELSE << >>

\* fn(subctx) returns e in task t's goroutine, which then logs.
TaskReturn(t, e) ==
    /\ tpc[t] = "running"
    /\ funcs[t] = "free" \/ SubDone
    /\ tpc' = [tpc EXCEPT ![t] = "returned"]
    /\ terr' = [terr EXCEPT ![t] = e]
    /\ logs' = [logs EXCEPT ![t] = logs[t] \o LogRecords(t, e)]
    /\ failedLive' = (failedLive \/ (~SubDone /\ e # Nil /\ ~ErrorsIs(e, Canceled)))
    /\ UNCHANGED <<auxVars, cfgVars, stopTimeout, started, rpc, idx, waitCount, errc,
                   ctxVars, sigVars, via, err, drainVars>>

\* Faulty variant of TaskDecrement: the goroutine moves on without decrementing.
TaskDecrementSkipped(t, from, to) ==
    /\ tpc[t] = from
    /\ tpc' = [tpc EXCEPT ![t] = to]
    /\ UNCHANGED <<auxVars, cfgVars, stopTimeout, started, rpc, idx, waitCount, errc, terr,
                   logs, failedLive, ctxVars, sigVars, via, err, drainVars>>

\* atomic.AddInt32(&waitCount, -1)
TaskDecrement(t, from, to) ==
    /\ tpc[t] = from
    /\ waitCount' = waitCount - 1
    /\ tpc' = [tpc EXCEPT ![t] = to]
    /\ UNCHANGED <<auxVars, cfgVars, stopTimeout, started, rpc, idx, errc, terr,
                   logs, failedLive, ctxVars,
                   sigVars, via, err, drainVars>>

\* errc <- err (errc has capacity len(r.funcs))
TaskPublish(t, from, to) ==
    /\ tpc[t] = from
    /\ Len(errc) < ErrcCap
    /\ errc' = Append(errc, terr[t])
    /\ tpc' = [tpc EXCEPT ![t] = to]
    /\ UNCHANGED <<auxVars, cfgVars, stopTimeout, started, rpc, idx, waitCount, terr,
                   logs, failedLive, ctxVars, sigVars, via, err, drainVars>>

\* Faulty variant of TaskTail: the goroutine's last two statements in the opposite
\* order, the record published before the counter is decremented.
TaskTailPublishFirst(t) ==
    \/ TaskPublish(t, "returned", "published")
    \/ TaskDecrement(t, "published", "done")

\* The goroutine's last two statements: decrement, then publish.
TaskTail(t) ==
    \/ TaskDecrement(t, "returned", "decremented")
    \/ TaskPublish(t, "decremented", "done")

\* ------------------------------------------------------- the select loop
\* case sig := <-sigc
SelectSignal ==
    /\ rpc = "select"
    /\ Len(sigc) > 0
    /\ sigc' = Tail(sigc)
    /\ via' = "signal"
    /\ rpc' = "cancel"
    /\ UNCHANGED <<auxVars, cfgVars, stopTimeout, started, idx, waitCount, errc, taskVars,
                   ctxVars, notified, err, drainVars>>

\* case <-subctx.Done(): err = subctx.Err()
SelectDone ==
    /\ rpc = "select"
    /\ SubDone
    /\ err' = subErr
    /\ via' = "ctx"
    /\ rpc' = "cancel"
    /\ UNCHANGED <<auxVars, cfgVars, stopTimeout, started, idx, waitCount, errc, taskVars,
                   ctxVars, sigVars, drainVars>>

\* case err = <-errc.  A nil record under proceedOnNil goes on to load the
\* counter; every other record leaves the loop.
SelectRecv ==
    /\ rpc = "select"
    /\ Len(errc) > 0
    /\ err' = Head(errc)
    /\ errc' = Tail(errc)
    /\ IF err' = Nil /\ proceedOnNil
         THEN rpc' = "check" /\ via' = via
         ELSE rpc' = "cancel" /\ via' = "errc"
    /\ UNCHANGED <<auxVars, cfgVars, stopTimeout, started, idx, waitCount, taskVars,
                   ctxVars, sigVars, drainVars>>

\* Faulty variant of CheckCount: every nil record goes back to the select,
\* the counter is not looked at.
CheckCountAlwaysLoops ==
    /\ rpc = "check"
    /\ rpc' = "select"
    /\ UNCHANGED <<auxVars, cfgVars, stopTimeout, started, idx, waitCount, errc, taskVars,
                   ctxVars, sigVars, via, err, drainVars>>

\* Faulty variant of CheckCount: the comparison is off by one (waitCount > 1).
CheckCountOffByOne ==
    /\ rpc = "check"
    /\ IF waitCount > 1
         THEN rpc' = "select" /\ via' = via
         ELSE rpc' = "cancel" /\ via' = "errc"
    /\ UNCHANGED <<auxVars, cfgVars, stopTimeout, started, idx, waitCount, errc, taskVars,
                   ctxVars, sigVars, err, drainVars>>

\* atomic.LoadInt32(&waitCount) > 0: goto loop, else leave the loop.
CheckCount ==
    /\ rpc = "check"
    /\ IF waitCount > 0
         THEN rpc' = "select" /\ via' = via
         ELSE rpc' = "cancel" /\ via' = "errc"
    /\ UNCHANGED <<auxVars, cfgVars, stopTimeout, started, idx, waitCount, errc, taskVars,
                   ctxVars, sigVars, err, drainVars>>

\* Faulty variant of Cancel: Run goes on to the drain without cancelling.
CancelSkipped ==
    /\ rpc = "cancel"
    /\ rpc' = "drain"
    /\ UNCHANGED <<auxVars, cfgVars, stopTimeout, started, idx, waitCount, errc, taskVars,
                   ctxVars, sigVars, via, err, drainVars>>

\* cancel(fmt.Errorf("await: %w", err)): the first cancellation of a scope
\* sets its error and cause, later ones change nothing.
Cancel ==
    /\ rpc = "cancel"
    /\ IF SubDone
         THEN UNCHANGED <<subErr, subCause>>
         ELSE subErr' = Canceled /\ subCause' = AwaitCause(err)
    /\ rpc' = "drain"
    /\ UNCHANGED <<auxVars, cfgVars, stopTimeout, started, idx, waitCount, errc, taskVars,
                   parent, sigVars, via, err, drainVars>>

\* --------------------------------------------------------- drain, return
\* Faulty variant of WaitOrTimeoutReturn: the deadline exit returns err unwrapped.
WaitOrTimeoutNoWrap(exit, e) == e

\* What waitOrTimeout returns on each of its two exits.
WaitOrTimeoutReturn(exit, e) ==
    IF exit = "zero" THEN e
    ELSE IF e # Nil THEN ShutdownTimeout(e) ELSE Nil

\* Faulty variant of TerminalMapping: the result is returned as it is.
TerminalMappingNone(e) == e

\* Faulty variant of TerminalMapping: err == context.Canceled in place of errors.Is.
TerminalMappingExact(e) == IF e = Canceled THEN Nil ELSE e

\* Faulty variant of TerminalMapping: an expired deadline is mapped to nil
\* like a cancellation.
TerminalMappingAnyScopeErr(e) ==
    IF ErrorsIs(e, Canceled) \/ ErrorsIs(e, DeadlineExceeded) THEN Nil ELSE e

\* Run's last statements: a result that is or wraps context.Canceled is
\* returned as nil.
TerminalMapping(e) == IF ErrorsIs(e, Canceled) THEN Nil ELSE e

\* One turn of waitOrTimeout's loop while i < timeout: load the counter,
\* return err if it is zero, else sleep and advance i.
DrainPoll ==
    /\ rpc = "drain"
    /\ elapsed < stopTimeout
    /\ IF waitCount = 0
         THEN /\ drainExit' = "zero"
              /\ wres' = WaitOrTimeoutReturn("zero", err)
              /\ result' = TerminalMapping(wres')
              /\ rpc' = "done"
              /\ UNCHANGED elapsed
         ELSE /\ elapsed' = elapsed + PollInterval
              /\ UNCHANGED <<drainExit, wres, result, rpc>>
    /\ UNCHANGED <<auxVars, cfgVars, stopTimeout, started, idx, waitCount, errc, taskVars,
                   ctxVars, sigVars, via, err>>

\* Faulty variant of DrainDeadline: past the deadline the waiter still returns only
\* once the counter is zero.
DrainDeadlineWaits ==
    /\ rpc = "drain"
    /\ elapsed >= stopTimeout
    /\ waitCount = 0
    /\ drainExit' = "deadline"
    /\ wres' = WaitOrTimeoutReturn("deadline", err)
    /\ result' = TerminalMapping(wres')
    /\ rpc' = "done"
    /\ UNCHANGED <<auxVars, cfgVars, stopTimeout, started, idx, waitCount, errc, taskVars,
                   ctxVars, sigVars, via, err, elapsed>>

\* waitOrTimeout's loop ends with i >= timeout.
DrainDeadline ==
    /\ rpc = "drain"
    /\ elapsed >= stopTimeout
    /\ drainExit' = "deadline"
    /\ wres' = WaitOrTimeoutReturn("deadline", err)
    /\ result' = TerminalMapping(wres')
    /\ rpc' = "done"
    /\ UNCHANGED <<auxVars, cfgVars, stopTimeout, started, idx, waitCount, errc, taskVars,
                   ctxVars, sigVars, via, err, elapsed>>

\* A call of Add, AddNamed or Run made once Run has started: the caller is
\* at r.startMu.Lock().
LateCall(op) ==
    /\ started
    /\ Len(late) < MaxLateCalls
    /\ late' = Append(late, [op |-> op, st |-> "locking"])
    /\ UNCHANGED <<runVars, libVars, startMu, serveVars>>

\* Faulty variant of LatePanic: the late call appends before it looks at
\* r.started.
LatePanicAfterAppend(i) ==
    /\ i \in 1..Len(late)
    /\ late[i].st = "locking"
    /\ startMu = "free"
    /\ started
    /\ funcs' = Append(funcs, "free")
    /\ funcNames' = Append(funcNames, "")
    /\ startMu' = "held"
    /\ late' = [late EXCEPT ![i].st = "panicked"]
    /\ UNCHANGED <<withSignals, proceedOnNil, stopTimeout, started, rpc, idx,
                   waitCount, errc, taskVars, ctxVars, sigVars, via, err,
                   drainVars, serveVars, libVars>>

\* The late call takes the mutex, finds r.started set and panics; nothing
\* unlocks the mutex on that path.
LatePanic(i) ==
    /\ i \in 1..Len(late)
    /\ late[i].st = "locking"
    /\ startMu = "free"
    /\ started
    /\ startMu' = "held"
    /\ late' = [late EXCEPT ![i].st = "panicked"]
    /\ UNCHANGED <<runVars, libVars, serveVars>>

Next ==
    \/ \E f \in AddArgs : Add(f)
    \/ \E a \in AddNamedArgs : AddNamed(a[1], a[2])
    \/ RunStart
    \/ SpawnInc
    \/ SpawnGo
    \/ SetupSignals
    \/ ParentCancel
    \/ ParentDeadline
    \/ \E sig \in Signals : OSSignal(sig)
    \/ \E t \in 1..Len(funcs) : \E e \in TaskErrs(t, funcs[t]) : TaskReturn(t, e)
    \/ \E t \in Tasks : TaskTail(t)
    \/ SelectSignal
    \/ SelectDone
    \/ SelectRecv
    \/ CheckCount
    \/ Cancel
    \/ DrainPoll
    \/ DrainDeadline

Spec == Init /\ [][Next]_vars

\* ------------------------------------- continue-on-nil, all tasks return nil
\* New(WithContinueOnNil), with or without WithSignals, tasks that return
\* nil on their own, no signal delivered and no cancellation of the parent.
\* (The counter is 0 when the loop is left, so the drain returns at its first
\* poll.)
InitNil == Init /\ proceedOnNil

\* The steps of the goroutine that called Run, after Run's first step.
RunSteps ==
    \/ SpawnInc
    \/ SpawnGo
    \/ SetupSignals
    \/ SelectRecv
    \/ CheckCount
    \/ Cancel
    \/ DrainPoll

NextNil ==
    \/ \E f \in AddArgs : Add(f)
    \/ RunStart
    \/ RunSteps
    \/ \E t \in 1..Len(funcs) : TaskReturn(t, Nil)
    \/ \E t \in Tasks : TaskTail(t)

\* The Go scheduler runs every runnable goroutine eventually, and every task
\* function returns.
FairNil ==
    /\ WF_vars(RunSteps)
    /\ \A t \in Tasks : WF_vars(TaskReturn(t, Nil))
    /\ \A t \in Tasks : WF_vars(TaskTail(t))

SpecNil == InitNil /\ [][NextNil]_vars /\ FairNil

\* ------------------------------------------------ the stop timeout's default
\* New() or New(WithStopTimeout(d)) with d negative, zero, below one poll
\* interval and above it; at most one task, which returns only once its
\* scope is cancelled, if at all; the caller cancels the parent.
InitTimeout ==
    /\ InitRunnerFrom(StopTimeoutArgs) /\ AwNew(AwNoOptions) /\ InitLoader
    /\ InitCall
    /\ ~withSignals /\ ~proceedOnNil

NextTimeout ==
    \/ N = 0 /\ (\E a \in AddNamedArgs : AddNamed(a[1], a[2]))
    \/ RunStart
    \/ SpawnInc
    \/ SpawnGo
    \/ SetupSignals
    \/ ParentCancel
    \/ \E t \in 1..Len(funcs) : \E e \in TaskErrs(t, funcs[t]) : TaskReturn(t, e)
    \/ \E t \in Tasks : TaskTail(t)
    \/ SelectDone
    \/ SelectRecv
    \/ Cancel
    \/ DrainPoll
    \/ DrainDeadline

SpecTimeout == InitTimeout /\ [][NextTimeout]_vars

\* ------------------------------------------- the runner of await/await.go
AwN == Len(awFuncs)

\* r.Add(f)
AwAdd(k) ==
    /\ awPc = "new"
    /\ ~awStarted
    /\ AwN < MaxAwTasks
    /\ awFuncs' = Append(awFuncs, k)
    /\ UNCHANGED <<partVars, rpcVars, ldVars, awOpts, awWithSignals, awStopTimeout, awStarted, awPc,
                   awTpc, awTerr, awWaitCount, awErrc, awNotified, awSigc,
                   awParent, awCtxErr, awErr, awElapsed, awResult>>

\* Run up to its select: started set, the stop timeout defaulted, errc made,
\* the scope derived, every goroutine started, signal.Notify installed if
\* r.withSignals.
AwRunStart ==
    /\ awPc = "new"
    /\ ~awStarted
    /\ awStarted' = TRUE
    /\ awStopTimeout' = IF awStopTimeout <= 0 THEN AwDefaultStopTimeout
                        ELSE awStopTimeout
    /\ awErrc' = << >>
    /\ awCtxErr' = IF awParent = "canceled" THEN Canceled ELSE Nil
    /\ awWaitCount' = AwN
    /\ awTpc' = [t \in AwTasks |-> IF t <= AwN THEN "running" ELSE "none"]
    /\ awNotified' = awWithSignals
    /\ awSigc' = << >>
    /\ awPc' = "select"
    /\ UNCHANGED <<partVars, rpcVars, ldVars, awOpts, awWithSignals, awFuncs, awTerr, awParent,
                   awErr, awElapsed, awResult>>

\* The caller cancels the parent scope.
AwParentCancel ==
    /\ awParent = "live"
    /\ awPc # "killed"
    /\ awParent' = "canceled"
    /\ awCtxErr' = IF awStarted /\ awCtxErr = Nil THEN Canceled ELSE awCtxErr
    /\ UNCHANGED <<partVars, rpcVars, ldVars, awOpts, awWithSignals, awStopTimeout, awStarted,
                   awFuncs, awPc, awTpc, awTerr, awWaitCount, awErrc, awNotified,
                   awSigc, awErr, awElapsed, awResult>>

\* SIGINT or SIGTERM reaches the process while Run is in its select: with
\* the subscription it is sent to sigc (dropped if sigc is full), without it
\* the default disposition ends the process.
AwOSSignal(sig) ==
    /\ awPc = "select"
    /\ IF awNotified
         THEN /\ awSigc' = IF Len(awSigc) < 1 THEN Append(awSigc, sig) ELSE awSigc
              /\ awPc' = awPc
         ELSE /\ awPc' = "killed"
              /\ awSigc' = awSigc
    /\ UNCHANGED <<partVars, rpcVars, ldVars, awOpts, awWithSignals, awStopTimeout, awStarted,
                   awFuncs, awTpc, awTerr, awWaitCount, awErrc, awNotified,
                   awParent, awCtxErr, awErr, awElapsed, awResult>>

\* What a task of kind k may return: a free task returns on its own, a
\* ctxbound task returns ctx.Err() once its scope is cancelled, a stubborn
\* task never returns.
AwTaskErrs(t, k) ==
    IF k = "free" THEN {Nil, Boom(t)}
    ELSE IF k = "ctxbound" /\ awCtxErr # Nil THEN {Canceled}
    ELSE {}

\* err := fn(ctx), and the record logged for it.
AwTaskReturn(t, e) ==
    /\ awPc \notin {"new", "killed"}
    /\ awTpc[t] = "running"
    /\ e \in AwTaskErrs(t, awFuncs[t])
    /\ awTpc' = [awTpc EXCEPT ![t] = "returned"]
    /\ awTerr' = [awTerr EXCEPT ![t] = e]
    /\ UNCHANGED <<partVars, rpcVars, ldVars, awOpts, awWithSignals, awStopTimeout, awStarted,
                   awFuncs, awPc, awWaitCount, awErrc, awNotified, awSigc,
                   awParent, awCtxErr, awErr, awElapsed, awResult>>

\* errc <- err
AwTaskPublish(t) ==
    /\ awPc # "killed"
    /\ awTpc[t] = "returned"
    /\ Len(awErrc) < AwN
    /\ awErrc' = Append(awErrc, awTerr[t])
    /\ awTpc' = [awTpc EXCEPT ![t] = "published"]
    /\ UNCHANGED <<partVars, rpcVars, ldVars, awOpts, awWithSignals, awStopTimeout, awStarted,
                   awFuncs, awPc, awTerr, awWaitCount, awNotified, awSigc,
                   awParent, awCtxErr, awErr, awElapsed, awResult>>

\* atomic.AddInt32(&waitCount, -1)
AwTaskDecrement(t) ==
    /\ awPc # "killed"
    /\ awTpc[t] = "published"
    /\ awWaitCount' = awWaitCount - 1
    /\ awTpc' = [awTpc EXCEPT ![t] = "done"]
    /\ UNCHANGED <<partVars, rpcVars, ldVars, awOpts, awWithSignals, awStopTimeout, awStarted,
                   awFuncs, awPc, awTerr, awErrc, awNotified, awSigc, awParent,
                   awCtxErr, awErr, awElapsed, awResult>>

\* case sig := <-sigc
AwSelectSignal ==
    /\ awPc = "select"
    /\ Len(awSigc) > 0
    /\ awSigc' = Tail(awSigc)
    /\ awPc' = "cancel"
    /\ UNCHANGED <<partVars, rpcVars, ldVars, awOpts, awWithSignals, awStopTimeout, awStarted,
                   awFuncs, awTpc, awTerr, awWaitCount, awErrc, awNotified,
                   awParent, awCtxErr, awErr, awElapsed, awResult>>

\* case <-ctx.Done(): err = ctx.Err()
AwSelectDone ==
    /\ awPc = "select"
    /\ awCtxErr # Nil
    /\ awErr' = awCtxErr
    /\ awPc' = "cancel"
    /\ UNCHANGED <<partVars, rpcVars, ldVars, awOpts, awWithSignals, awStopTimeout, awStarted,
                   awFuncs, awTpc, awTerr, awWaitCount, awErrc, awNotified, awSigc,
                   awParent, awCtxErr, awElapsed, awResult>>

\* case err = <-errc
AwSelectRecv ==
    /\ awPc = "select"
    /\ Len(awErrc) > 0
    /\ awErr' = Head(awErrc)
    /\ awErrc' = Tail(awErrc)
    /\ awPc' = "cancel"
    /\ UNCHANGED <<partVars, rpcVars, ldVars, awOpts, awWithSignals, awStopTimeout, awStarted,
                   awFuncs, awTpc, awTerr, awWaitCount, awNotified, awSigc,
                   awParent, awCtxErr, awElapsed, awResult>>

\* cancel(fmt.Errorf("await: %w", err)), then waitOrTimeout is entered.
AwCancel ==
    /\ awPc = "cancel"
    /\ awCtxErr' = IF awCtxErr = Nil THEN Canceled ELSE awCtxErr
    /\ awElapsed' = 0
    /\ awPc' = "wait"
    /\ UNCHANGED <<partVars, rpcVars, ldVars, awOpts, awWithSignals, awStopTimeout, awStarted,
                   awFuncs, awTpc, awTerr, awWaitCount, awErrc, awNotified, awSigc,
                   awParent, awErr, awResult>>

\* One turn of waitOrTimeout's loop on the ticker's case, 10ms after the
\* last: return if the counter is 0, else go on looping (the model stops
\* counting the time one tick past the stop timeout).  Run then returns nil
\* for a cancellation and err otherwise.  The loop's other case,
\* time.After(timeout), only logs and goes on looping.
AwWaitTick ==
    /\ awPc = "wait"
    /\ IF awWaitCount = 0
         THEN /\ awPc' = "done"
              /\ awResult' = IF ErrorsIs(awErr, Canceled) THEN Nil ELSE awErr
              /\ awElapsed' = awElapsed
         ELSE /\ awElapsed <= awStopTimeout
              /\ awElapsed' = awElapsed + AwTick
              /\ UNCHANGED <<awPc, awResult>>
    /\ UNCHANGED <<partVars, rpcVars, ldVars, awOpts, awWithSignals, awStopTimeout, awStarted,
                   awFuncs, awTpc, awTerr, awWaitCount, awErrc, awNotified, awSigc,
                   awParent, awCtxErr, awErr>>

\* The case of sigc is left out: no state has a signal in sigc, because
\* New leaves r.withSignals FALSE.
NextAwait ==
    \/ \E k \in AwTaskKinds : AwAdd(k)
    \/ AwRunStart
    \/ AwParentCancel
    \/ \E sig \in Signals : AwOSSignal(sig)
    \/ \E t \in 1..AwN : \E e \in {Nil, Boom(t), Canceled} : AwTaskReturn(t, e)
    \/ \E t \in 1..AwN : AwTaskPublish(t)
    \/ \E t \in 1..AwN : AwTaskDecrement(t)
    \/ AwSelectDone
    \/ AwSelectRecv
    \/ AwCancel
    \/ AwWaitTick

\* An await.go runner made with any options; the runner of part_001 unused.
InitAwait ==
    /\ InitRunner /\ ~withSignals /\ ~proceedOnNil
    /\ \E o \in AwOptions : AwNew(o)
    /\ InitLoader
    /\ InitCall

SpecAwait == InitAwait /\ [][NextAwait]_vars

\* ----------------------------------------------------------------- loader
\* Register[O, T](name, factory): the registry of T is made at the first
\* registration for T; a later registration under a name replaces the former.
Register(name, factory) ==
    /\ lpc = "idle"
    /\ LET typStr == TypStr(factory.typ)
           old == IF typStr \in DOMAIN registry THEN registry[typStr] ELSE << >>
           new == [n \in DOMAIN old \cup {name} |->
                       IF n = name THEN factory ELSE old[n]]
       IN registry' = [t \in DOMAIN registry \cup {typStr} |->
                           IF t = typStr THEN new ELSE registry[t]]
    /\ UNCHANGED <<partVars, rpcVars, awVars, lpc, linput, cfg, lerr, replaced>>

\* The builder a factory returns with the element unmarshalled into it: a
\* pointer to a struct with one exported string field, and for srcConfigB
\* an unexported one set by the factory.
Build(factory, elem) ==
    PtrV([k |-> "struct", by |-> factory,
          f |-> IF factory.id = "srcConfigB"
                  THEN <<StringV(TRUE, elem.field), StringV(FALSE, DollarT)>>
                  ELSE <<StringV(TRUE, elem.field)>>])

\* Faulty variant of UnmarshalJSON: any factory registered for T is used,
\* whatever the element's type name.
UnmarshalJSONAnyFactory(T, elem, reg) ==
    IF TypStr(T) \notin DOMAIN reg
      THEN [b |-> NilValue, err |-> <<"tried to unmarshal unregistered type">>]
    ELSE IF ~elem.hasType
      THEN [b |-> NilValue, err |-> <<"failed to unmarshal, missing type">>]
    ELSE IF elem.type \notin DOMAIN reg[TypStr(T)]
      THEN [b |-> NilValue, err |-> <<"failed to unmarshal, unknown type">>]
    ELSE [b |-> Build(reg[TypStr(T)][CHOOSE n \in DOMAIN reg[TypStr(T)] : TRUE],
                      elem),
          err |-> Nil]

\* (*Loader[O, T]).UnmarshalJSON(raw): the builder and the error.
UnmarshalJSON(T, elem, reg) ==
    IF TypStr(T) \notin DOMAIN reg
      THEN [b |-> NilValue, err |-> <<"tried to unmarshal unregistered type">>]
    ELSE IF ~elem.hasType
      THEN [b |-> NilValue, err |-> <<"failed to unmarshal, missing type">>]
    ELSE IF elem.type \notin DOMAIN reg[TypStr(T)]
      THEN [b |-> NilValue, err |-> <<"failed to unmarshal, unknown type">>]
    ELSE [b |-> Build(reg[TypStr(T)][elem.type], elem), err |-> Nil]

\* json.Unmarshal into a []Loader[T]: the elements in input order, up to the
\* first whose UnmarshalJSON fails.
RECURSIVE UnmarshalLoaders(_, _, _)
UnmarshalLoaders(T, elems, reg) ==
    IF elems = << >> THEN [out |-> << >>, err |-> Nil]
    ELSE LET u == UnmarshalJSON(T, Head(elems), reg)
         IN IF u.err # Nil
              THEN [out |-> << >>, err |-> u.err]
              ELSE LET r == UnmarshalLoaders(T, Tail(elems), reg)
                   IN [out |-> <<StructV(<<IfaceV(u.b)>>)>> \o r.out,
                       err |-> r.err]

\* json.Unmarshal(bts, cfg) for a Config: name, sources, destinations, in
\* that order, stopping at the first error.
Unmarshal(in, reg) ==
    LET ss == UnmarshalLoaders("Source", in.sources, reg)
        ds == IF ss.err # Nil THEN [out |-> << >>, err |-> ss.err]
              ELSE UnmarshalLoaders("Destination", in.destinations, reg)
    IN [cfg |-> PtrV(StructV(<<StringV(TRUE, in.name), SliceV(ss.out),
                               SliceV(ds.out)>>)),
        err |-> ds.err]

\* Faulty variant of replaceEnv: no case for reflect.Interface.
RECURSIVE replaceEnvNoInterface(_)
replaceEnvNoInterface(v) ==
    IF v.k = "string"
      THEN IF v.set /\ HasDollarPrefix(v.v)
             THEN [v EXCEPT !.v = Getenv(CutDollarPrefix(v.v))]
             ELSE v
    ELSE IF v.k = "ptr"
      THEN [v EXCEPT !.e = replaceEnvNoInterface(v.e)]
    ELSE IF v.k = "struct"
      THEN [v EXCEPT !.f = [i \in DOMAIN v.f |-> replaceEnvNoInterface(v.f[i])]]
    ELSE IF v.k = "slice"
      THEN [v EXCEPT !.e = [i \in DOMAIN v.e |-> replaceEnvNoInterface(v.e[i])]]
    ELSE v

\* replaceEnv(v), as the value v holds afterwards.
RECURSIVE replaceEnv(_)
replaceEnv(v) ==
    IF v.k = "invalid" THEN v
    ELSE IF v.k = "string"
      THEN IF v.set /\ HasDollarPrefix(v.v)
             THEN [v EXCEPT !.v = Getenv(CutDollarPrefix(v.v))]
             ELSE v
    ELSE IF v.k = "ptr"
      THEN [v EXCEPT !.e = replaceEnv(v.e)]
    ELSE IF v.k = "struct"
      THEN [v EXCEPT !.f = [i \in DOMAIN v.f |-> replaceEnv(v.f[i])]]
    ELSE IF v.k = "slice"
      THEN [v EXCEPT !.e = [i \in DOMAIN v.e |-> replaceEnv(v.e[i])]]
    ELSE IF v.k = "iface"
      THEN [v EXCEPT !.e = replaceEnv(v.e)]
    ELSE v

\* Faulty variant of LoadConfig: replaceEnv is called whether or not
\* json.Unmarshal failed.
LoadConfigAlwaysReplaces(in) ==
    /\ lpc = "idle"
    /\ lpc' = "loaded"
    /\ linput' = in
    /\ IF in.malformed
         THEN lerr' = <<"hujson: invalid">> /\ cfg' = replaceEnv(cfg)
              /\ replaced' = TRUE
         ELSE LET d == Unmarshal(in, registry)
              IN lerr' = d.err /\ cfg' = replaceEnv(d.cfg) /\ replaced' = TRUE
    /\ UNCHANGED <<partVars, rpcVars, awVars, registry>>

\* LoadConfig(bts, &actual): hujson.Standardize, json.Unmarshal, replaceEnv.
LoadConfig(in) ==
    /\ lpc = "idle"
    /\ lpc' = "loaded"
    /\ linput' = in
    /\ IF in.malformed
         THEN lerr' = <<"hujson: invalid">> /\ cfg' = cfg /\ replaced' = FALSE
         ELSE LET d == Unmarshal(in, registry)
              IN IF d.err # Nil
                   THEN lerr' = d.err /\ cfg' = d.cfg /\ replaced' = FALSE
                   ELSE lerr' = Nil /\ cfg' = replaceEnv(d.cfg)
                        /\ replaced' = TRUE
    /\ UNCHANGED <<partVars, rpcVars, awVars, registry>>

NextLoader ==
    \/ \E f \in Factories : \E n \in RegNames(f.typ) : Register(n, f)
    \/ \E in \in Inputs : LoadConfig(in)

\* The loader package alone.
InitLoad ==
    /\ InitRunner /\ ~withSignals /\ ~proceedOnNil
    /\ AwNew(AwNoOptions)
    /\ InitLoader
    /\ InitCall

SpecLoader == InitLoad /\ [][NextLoader]_vars

\* ------------------------------------------------ ListenAndServe adapter
\* The task function makes errc and starts the goroutine that serves.
ServeStart ==
    /\ apc = "start"
    /\ apc' = "select"
    /\ spc' = "serving"
    /\ serveErrc' = << >>
    /\ UNCHANGED <<runVars, libVars, misuseVars, serveRet, ctxErr, ctxCause, cancelFirst,
                   stopCalls, cto, stopErr, ares>>

\* Run (or its parent scope) cancels the scope the adapter was given.
ScopeCancel(e, c) ==
    /\ ctxErr = Nil
    /\ ctxErr' = e
    /\ ctxCause' = c
    /\ cancelFirst' = (spc \in {"none", "serving"})
    /\ UNCHANGED <<runVars, libVars, misuseVars, apc, spc, serveRet, serveErrc, stopCalls,
                   cto, stopErr, ares>>

\* server.ListenAndServe() returns: on its own with an error, or, once
\* Shutdown was called, with http.ErrServerClosed.
ServeReturn(e) ==
    /\ spc = "serving"
    /\ e = ErrServerClosed => stopCalls > 0
    /\ serveRet' = e
    /\ spc' = "returned"
    /\ UNCHANGED <<runVars, libVars, misuseVars, apc, serveErrc, ctxErr, ctxCause,
                   cancelFirst, stopCalls, cto, stopErr, ares>>

\* Faulty variant of ServeSend: errc has no buffer, so the send needs the
\* adapter to be receiving in its select.
ServeSendUnbuffered ==
    /\ spc = "returned"
    /\ apc = "select"
    /\ Len(serveErrc) < 1
    /\ serveErrc' = Append(serveErrc, serveRet)
    /\ spc' = "sent"
    /\ UNCHANGED <<runVars, libVars, misuseVars, apc, serveRet, ctxErr, ctxCause,
                   cancelFirst, stopCalls, cto, stopErr, ares>>

\* errc <- server.ListenAndServe()
ServeSend ==
    /\ spc = "returned"
    /\ Len(serveErrc) < 1
    /\ serveErrc' = Append(serveErrc, serveRet)
    /\ spc' = "sent"
    /\ UNCHANGED <<runVars, libVars, misuseVars, apc, serveRet, ctxErr, ctxCause,
                   cancelFirst, stopCalls, cto, stopErr, ares>>

\* Faulty variant of SelectCtxDone: the adapter does not act on the
\* cancellation and goes on waiting for serve's record.
SelectCtxDoneIgnored ==
    /\ apc = "select"
    /\ ctxErr # Nil
    /\ UNCHANGED vars

\* Faulty variant of SelectCtxDone: the stop deadline is derived from the
\* cancelled scope.
SelectCtxDoneScoped ==
    /\ apc = "select"
    /\ ctxErr # Nil
    /\ cto' = [parent |-> "ctx", timeout |-> ShutdownDeadline]
    /\ stopCalls' = stopCalls + 1
    /\ apc' = "shutdown"
    /\ UNCHANGED <<runVars, libVars, misuseVars, spc, serveRet, serveErrc, ctxErr,
                   ctxCause, cancelFirst, stopErr, ares>>

\* case <-ctx.Done(): cto is made from context.Background() with the fixed
\* deadline and server.Shutdown(cto) is called.
SelectCtxDone ==
    /\ apc = "select"
    /\ ctxErr # Nil
    /\ cto' = [parent |-> "background", timeout |-> ShutdownDeadline]
    /\ stopCalls' = stopCalls + 1
    /\ apc' = "shutdown"
    /\ UNCHANGED <<runVars, libVars, misuseVars, spc, serveRet, serveErrc, ctxErr,
                   ctxCause, cancelFirst, stopErr, ares>>

\* server.Shutdown(cto) returns e (nil, or cto's error when the deadline
\* passed): the adapter returns e if it is not nil, ctx.Err() otherwise.
ShutdownReturn(e) ==
    /\ apc = "shutdown"
    /\ stopErr' = e
    /\ ares' = IF e # Nil THEN e ELSE ctxErr
    /\ apc' = "done"
    /\ UNCHANGED <<runVars, libVars, misuseVars, spc, serveRet, serveErrc, ctxErr,
                   ctxCause, cancelFirst, stopCalls, cto>>

\* case err := <-errc: return err
SelectServeErr ==
    /\ apc = "select"
    /\ Len(serveErrc) > 0
    /\ ares' = Head(serveErrc)
    /\ serveErrc' = Tail(serveErrc)
    /\ apc' = "done"
    /\ UNCHANGED <<runVars, libVars, misuseVars, spc, serveRet, ctxErr, ctxCause,
                   cancelFirst, stopCalls, cto, stopErr>>

NextServe ==
    \/ ServeStart
    \/ \E sc \in ScopeStops : ScopeCancel(sc[1], sc[2])
    \/ \E e \in {ErrServerClosed, ListenFailed} : ServeReturn(e)
    \/ ServeSend
    \/ SelectCtxDone
    \/ \E e \in {Nil, DeadlineExceeded} : ShutdownReturn(e)
    \/ SelectServeErr

\* The adapter in its own goroutine: its steps once the select is reached.
AdapterSteps ==
    \/ ServeSend
    \/ SelectCtxDone
    \/ ShutdownReturn(Nil)

\* A runner whose only task is the adapter, over a resource whose serve
\* blocks until Shutdown is called and whose Shutdown succeeds; the parent
\* scope may be cancelled.  The adapter's ctx is Run's subctx.
InitGraceful == Init /\ ~withSignals

NextGraceful ==
    \/ N = 0 /\ Add("adapter")
    \/ N = 1 /\ RunStart
    \/ SpawnInc
    \/ SpawnGo
    \/ SetupSignals
    \/ ParentCancel
    \/ tpc[1] = "running" /\ ServeStart
    \/ SubDone /\ ScopeCancel(subErr, subCause)
    \/ stopCalls > 0 /\ ServeReturn(ErrServerClosed)
    \/ AdapterSteps
    \/ apc = "done" /\ TaskReturn(1, ares)
    \/ TaskTail(1)
    \/ SelectDone
    \/ SelectRecv
    \/ Cancel
    \/ DrainPoll
    \/ DrainDeadline

\* Every runnable goroutine runs eventually: Run's, the task's, and the one
\* that serves; the cancellation of subctx reaches the adapter.
FairGraceful ==
    /\ WF_vars(SpawnInc \/ SpawnGo \/ SetupSignals \/ SelectDone \/ SelectRecv
                 \/ Cancel \/ DrainPoll \/ DrainDeadline)
    /\ WF_vars(tpc[1] = "running" /\ ServeStart)
    /\ WF_vars(SubDone /\ ScopeCancel(subErr, subCause))
    /\ WF_vars(stopCalls > 0 /\ ServeReturn(ErrServerClosed))
    /\ WF_vars(AdapterSteps)
    /\ WF_vars(apc = "done" /\ TaskReturn(1, ares))
    /\ WF_vars(TaskTail(1))

SpecGraceful == InitGraceful /\ [][NextGraceful]_vars /\ FairGraceful

\* The adapter alone, on a runner that is not used.
InitServe == Init /\ ~withSignals /\ ~proceedOnNil

SpecServe == InitServe /\ [][NextServe]_vars

\* Registration, Run up to the end of its spawn loop (Run releases startMu
\* before the loop and never takes it again), and the late calls.
NextMisuse ==
    \/ \E f \in AddArgs : Add(f)
    \/ \E a \in AddNamedArgs : AddNamed(a[1], a[2])
    \/ RunStart
    \/ SpawnInc
    \/ SpawnGo
    \/ \E op \in LateOps : LateCall(op)
    \/ \E i \in 1..MaxLateCalls : LatePanic(i)

SpecMisuse == Init /\ [][NextMisuse]_vars

\* ------------------------------------------------------------ rpc: values
\* The statuses handleErr and success write.
StatusUnauthorized == 401
StatusBadRequest == 400
StatusServiceUnavailable == 503
StatusUpgradeRequired == 426
StatusInternalServerError == 500
\* What the Status() methods of the application's two CustomError types return.
StatusCustomA == 409
StatusCustomB == 422
\* The status an application procedure writes when it answers by itself.
AppStatus == 202
\* Largest number of RegisterErrorHandler calls.
MaxHandlers == 1

\* An error is the sequence of the values errors.Is and errors.As visit, in
\* their order (the error, then what it wraps or joins).  A link is named by
\* what it is: the value AuthErr, UserErr or LimitErr made (these have no
\* Unwrap, what they were made from is not visited), context.Canceled,
\* sql.ErrNoRows, a value of one of two application types that implement
\* CustomError, or any other error.
CustomLinks == {"customA", "customB"}
ErrLinks == {"auth", "user", "canceled", "norows", "limit", "plain"} \cup CustomLinks
RpcErrors == {<<a>> : a \in ErrLinks} \cup {<<a, b>> : a, b \in ErrLinks}
\* ErrLimitReached = AuthErr(errors.New("limit reached"))
ErrLimitReached == <<"auth">>
\* An error of no particular kind, errors.New(...): what the decoders return
\* when they fail.
PlainErr == <<"plain">>
\* io.EOF, which the JSON decoder returns for an empty body.
EOF == <<"EOF">>
CustomStatus(l) == IF l = "customA" THEN StatusCustomA ELSE StatusCustomB

\* The request's decoder: the query for GET and HEAD, else by content type
\* (none for any other content type), and what it may return.
Decoders == {"query", "form", "json", "none"}
DecodeResults(d) ==
    CASE d = "none" -> {Nil}
      [] d = "json" -> {Nil, EOF, PlainErr}
      [] OTHER -> {Nil, PlainErr}
\* The request type is a ValidatorContext, a Validator or neither.
ValidatorKinds == {"none", "ValidatorContext", "Validator"}
\* What the procedure writes through ResponseWriter(ctx) before it returns.
AppWrites == {"none", "WriteHeader", "Write"}
\* What the procedure returns: a response json.Marshal accepts, one it
\* rejects, or the zero response and an error.
ProcResults ==
    {<<rs, Nil>> : rs \in {"result", "unencodable"}}
        \cup {<<"zero", e>> : e \in RpcErrors}

\* ------------------------------------------------------ rpc: the writer
\* (rw *responseWrapper).WriteHeader(statusCode), called by who
WriteHeader(w, statusCode, who) ==
    [w EXCEPT !.status = statusCode,
              !.wrapped = Append(@, [op |-> "WriteHeader", code |-> statusCode,
                                     data |-> << >>, by |-> who])]

\* (rw *responseWrapper).Write(data), called by who: the status is not set.
Write(w, data, who) ==
    [w EXCEPT !.responseSize = @ + 1,
              !.wrapped = Append(@, [op |-> "Write", code |-> 0,
                                     data |-> data, by |-> who])]

\* errors.As(err, &target) for a target whose type the links in S have, and
\* errors.Is(err, x) for S = {x}: some visited link is in S.
HasLink(e, S) == \E i \in 1..Len(e) : e[i] \in S
\* The link errors.As assigns to the target: the first one visited.
FirstLink(e, S) ==
    e[CHOOSE i \in 1..Len(e) : e[i] \in S /\ \A j \in 1..(i - 1) : e[j] \notin S]

\* The status and the body handleErr chooses.  In the loop over the registry
\* the target of errors.As is &ce, a pointer to a variable of the interface
\* type CustomError: it matches the first link that implements CustomError,
\* whatever value was registered, and that link's Status and Format are used.
ErrReply(e, reg) ==
    IF reg # << >> /\ HasLink(e, CustomLinks)
    THEN [code |-> CustomStatus(FirstLink(e, CustomLinks)),
          data |-> <<"format", FirstLink(e, CustomLinks)>>]
    ELSE IF HasLink(e, {"auth"})
    THEN [code |-> StatusUnauthorized, data |-> <<"error", "auth">>]
    ELSE IF HasLink(e, {"user"})
    THEN [code |-> StatusBadRequest, data |-> <<"error", "user">>]
    ELSE IF HasLink(e, {"canceled"})
    THEN [code |-> StatusServiceUnavailable, data |-> <<"error", "context canceled">>]
    ELSE IF HasLink(e, {"norows"})
    THEN [code |-> StatusBadRequest, data |-> <<"error", "no record could be found">>]
    ELSE IF HasLink(e, {"limit"})
    THEN [code |-> StatusUpgradeRequired, data |-> <<"error", "limit">>]
    ELSE [code |-> StatusInternalServerError, data |-> <<"error", "unknown error">>]

\* handleErr(ctx, w, err) with the registry reg
handleErr(w, e, reg) ==
    IF w.status # 0
    THEN w
    ELSE Write(WriteHeader(w, ErrReply(e, reg).code, "handler"),
               ErrReply(e, reg).data, "handler")

\* success(rw, result)
success(w, rs) ==
    IF rs = "unencodable"
    THEN WriteHeader(w, StatusInternalServerError, "handler")
    ELSE Write(Write(w, <<"result", rs>>, "handler"), <<"\n">>, "handler")

\* ------------------------------------------------------ rpc: the handler
\* The handler's "handleErr(ctx, rw, err); return".
FailWith(c, e) ==
    [c EXCEPT !.pc = "done", !.err = e,
              !.rw = handleErr(c.rw, e, c.errorRegistry),
              !.trace = Append(@, "handleErr")]

\* WithPreHook(hook), applied by RPC
WithPreHook ==
    /\ call.pc = "idle"
    /\ ~call.prehook
    /\ call' = [call EXCEPT !.prehook = TRUE]
    /\ UNCHANGED <<partVars, awVars, ldVars>>

\* WithPostHook(hook), applied by RPC
WithPostHook ==
    /\ call.pc = "idle"
    /\ ~call.posthook
    /\ call' = [call EXCEPT !.posthook = TRUE]
    /\ UNCHANGED <<partVars, awVars, ldVars>>

\* RegisterErrorHandler(ce)
RegisterErrorHandler(ce) ==
    /\ call.pc = "idle"
    /\ Len(call.errorRegistry) < MaxHandlers
    /\ call' = [call EXCEPT !.errorRegistry = Append(@, ce)]
    /\ UNCHANGED <<partVars, awVars, ldVars>>

\* The handler is called: it wraps the response writer.
ServeHTTP ==
    /\ call.pc = "idle"
    /\ call' = [call EXCEPT !.pc = "decode",
                            !.rw = [status |-> 0, responseSize |-> 0,
                                    wrapped |-> << >>]]
    /\ UNCHANGED <<partVars, awVars, ldVars>>

\* Deserialize the request with decoder d, which returns e.  io.EOF from the
\* JSON decoder is not taken for an error.
Decode(d, e) ==
    /\ call.pc = "decode"
    /\ call' = IF d = "none"
               THEN [call EXCEPT !.pc = "validate"]
               ELSE IF e # Nil /\ e # EOF
               THEN FailWith([call EXCEPT !.trace = Append(@, "decode")], e)
               ELSE [call EXCEPT !.pc = "validate",
                                 !.trace = Append(@, "decode")]
    /\ UNCHANGED <<partVars, awVars, ldVars>>

\* Faulty variant of PreHook: the procedure is called after the pre-hook
\* failed.
PreHookFailureAnswered(e) ==
    /\ call.pc = "prehook"
    /\ call' = IF ~call.prehook
               THEN [call EXCEPT !.pc = "procedure"]
               ELSE IF e # Nil
               THEN [FailWith([call EXCEPT !.trace = Append(@, "prehook")], e)
                        EXCEPT !.pc = "procedure"]
               ELSE [call EXCEPT !.pc = "procedure",
                                 !.trace = Append(@, "prehook")]
    /\ UNCHANGED <<partVars, awVars, ldVars>>

\* Validation: the request's Validate, of kind k, returns e.
Validate(k, e) ==
    /\ call.pc = "validate"
    /\ call' = IF k = "none"
               THEN [call EXCEPT !.pc = "prehook"]
               ELSE IF e # Nil
               THEN FailWith([call EXCEPT !.trace = Append(@, "validate")], e)
               ELSE [call EXCEPT !.pc = "prehook",
                                 !.trace = Append(@, "validate")]
    /\ UNCHANGED <<partVars, awVars, ldVars>>

\* The pre-hook, when there is one, returns e.
PreHook(e) ==
    /\ call.pc = "prehook"
    /\ call' = IF ~call.prehook
               THEN [call EXCEPT !.pc = "procedure"]
               ELSE IF e # Nil
               THEN FailWith([call EXCEPT !.trace = Append(@, "prehook")], e)
               ELSE [call EXCEPT !.pc = "procedure",
                                 !.trace = Append(@, "prehook")]
    /\ UNCHANGED <<partVars, awVars, ldVars>>

\* resp, err := callme(ctx, *rq): the procedure writes app through the
\* wrapper it finds in ctx and returns r.
Procedure(app, r) ==
    /\ call.pc = "procedure"
    /\ call' = [call EXCEPT
           !.pc = "posthook",
           !.trace = Append(@, "procedure"),
           !.resp = r[1],
           !.err = r[2],
           !.rw = CASE app = "WriteHeader" ->
                         Write(WriteHeader(@, AppStatus, "app"), <<"app">>, "app")
                    [] app = "Write" -> Write(@, <<"app">>, "app")
                    [] OTHER -> @]
    /\ UNCHANGED <<partVars, awVars, ldVars>>

\* Faulty variant of PostHook: the post-hook's error replaces the
\* procedure's.
PostHookErrorAdopted(e) ==
    /\ call.pc = "posthook"
    /\ call' = IF ~call.posthook
               THEN [call EXCEPT !.pc = "respond"]
               ELSE [call EXCEPT !.pc = "respond",
                                 !.trace = Append(@, "posthook"),
                                 !.hooked = Append(@, <<call.resp, call.err>>),
                                 !.e2 = e,
                                 !.err = IF e # Nil THEN e ELSE @]
    /\ UNCHANGED <<partVars, awVars, ldVars>>

\* The post-hook, when there is one, is given resp and err and returns e,
\* which is logged.
PostHook(e) ==
    /\ call.pc = "posthook"
    /\ call' = IF ~call.posthook
               THEN [call EXCEPT !.pc = "respond"]
               ELSE [call EXCEPT !.pc = "respond",
                                 !.trace = Append(@, "posthook"),
                                 !.hooked = Append(@, <<call.resp, call.err>>),
                                 !.e2 = e]
    /\ UNCHANGED <<partVars, awVars, ldVars>>

\* The handler's end: the error answer, nothing when the wrapper has a
\* status, else the success answer.
Respond ==
    /\ call.pc = "respond"
    /\ call' = IF call.err # Nil
               THEN FailWith(call, call.err)
               ELSE IF call.rw.status # 0
               THEN [call EXCEPT !.pc = "done"]
               ELSE [call EXCEPT !.pc = "done",
                                 !.rw = success(@, call.resp),
                                 !.trace = Append(@, "success")]
    /\ UNCHANGED <<partVars, awVars, ldVars>>

\* The errors a validator or a hook returns.
StageErrors == {Nil} \cup RpcErrors

NextRPC ==
    \/ WithPreHook
    \/ WithPostHook
    \/ \E ce \in CustomLinks : RegisterErrorHandler(ce)
    \/ ServeHTTP
    \/ \E d \in Decoders : \E e \in DecodeResults(d) : Decode(d, e)
    \/ \E k \in ValidatorKinds : \E e \in StageErrors : Validate(k, e)
    \/ \E e \in StageErrors : PreHook(e)
    \/ \E app \in AppWrites : \E r \in ProcResults : Procedure(app, r)
    \/ \E e \in {Nil, PlainErr} : PostHook(e)
    \/ Respond

\* One request served by one call value.
InitRPC ==
    /\ InitRunner /\ ~withSignals /\ ~proceedOnNil
    /\ AwNew(AwNoOptions)
    /\ InitLoader
    /\ InitCall

SpecRPC == InitRPC /\ [][NextRPC]_vars

\* ============================================================== claims
\* Task t's function has returned.
FnReturned(t) == tpc[t] \in {"returned", "decremented", "published", "done"}
\* Task t's goroutine has executed its decrement.
Decremented(t) == tpc[t] \in {"decremented", "done"}
\* Task t's goroutine has sent its completion record.
Published(t) == tpc[t] \in {"published", "done"}
\* The spawn loop has executed task t's increment.
Counted(t) == started /\ (t < idx \/ (t = idx /\ rpc = "go"))
NumPublished == Cardinality({t \in 1..N : Published(t)})
\* Records the supervisor has received from errc so far.
NumRead == NumPublished - Len(errc)
\* The spawn loop is over: the supervisor is at or past the select.
Spawned == rpc \in {"select", "check", "cancel", "drain", "done"}
\* The supervisor has left the select loop.
LoopLeft == rpc \in {"cancel", "drain", "done"}
\* e is a non-nil error that neither is nor wraps context.Canceled.
IsFailure(e) == e # Nil /\ ~ErrorsIs(e, Canceled)
IsShutdownTimeout(e) == Len(e) >= 1 /\ e[1] = "await: shutdown timeout"
\* ceil(stopTimeout / PollInterval)
MaxDrainPolls == (stopTimeout + PollInterval - 1) \div PollInterval

\* C1: the counter is decremented before the completion record is published:
\* in every state waitCount <= N - (records published); a supervisor that has
\* just read its k-th record (and is about to load the counter) finds
\* waitCount <= N - k; and once all tasks are spawned, waitCount = 0 is never
\* seen while a task function is still running.
C1_DecrementBeforePublish ==
    /\ waitCount <= N - NumPublished
    /\ rpc = "check" => waitCount <= N - NumRead
    /\ (Spawned /\ waitCount = 0) => \A t \in 1..N : tpc[t] # "running"

\* C1 witness: the supervisor has read its first record of two and is about
\* to load the counter, which is exactly N-1 with the other task running.
C1_Witness ==
    /\ rpc = "check" /\ N >= 2 /\ NumRead = 1
    /\ waitCount = N - 1
    /\ \E t \in 1..N : tpc[t] = "running"

\* C2: under proceedOnNil, with N >= 1 tasks whose returns so far are all nil,
\* no signal taken and the parent scope live, Run has not left the select
\* loop, the child scope is not cancelled and Run has not returned unless
\* every task function has returned.
C2_ContinueOnNilWaitsForLast ==
    ( /\ proceedOnNil /\ N >= 1
      /\ parent = "live" /\ via # "signal"
      /\ \A t \in 1..N : FnReturned(t) => terr[t] = Nil
      /\ LoopLeft \/ SubDone )
    => \A t \in 1..N : FnReturned(t)

\* C2 witness: two tasks, both returned nil, Run has returned success.
C2_Witness ==
    /\ proceedOnNil /\ N >= 2 /\ rpc = "done" /\ via = "errc"
    /\ parent = "live" /\ result = Nil
    /\ \A t \in 1..N : FnReturned(t) /\ terr[t] = Nil

\* C3 (as claimed): under proceedOnNil, with no signal and the parent live, if
\* some task function returned a non-nil, non-cancellation error before the
\* broadcast, and the other tasks' completions are nil, Run's result is a
\* non-nil error that is or wraps a task error.
C3_ErrorAlwaysEndsGroup ==
    ( /\ rpc = "done" /\ proceedOnNil
      /\ parent = "live" /\ via # "signal"
      /\ failedLive
      /\ \A t \in 1..N : terr[t] \in {Nil, Boom(t)} )
    => (result # Nil /\ \E t \in 1..N : ErrorsIs(result, Boom(t)))

\* The scenario of C4: t0 is the one task that returns on its own, and it
\* returned its failure; every other task returns only once its scope is done;
\* no signal was taken and the parent is live.
C4_Scenario(t0) ==
    /\ parent = "live" /\ via # "signal"
    /\ funcs[t0] = "free" /\ FnReturned(t0) /\ terr[t0] = Boom(t0)
    /\ \A t \in (1..N) \ {t0} : funcs[t] = "ctxbound"

C5_ParentCancelAlwaysSuccess ==
    ( /\ rpc = "done" /\ parent = "canceled"
      /\ \A t \in 1..N : funcs[t] = "ctxbound" \/ terr[t] = Nil )
    => (result = Nil /\ SubDone)

\* C5 (amended): when the parent scope was cancelled, the child scope is
\* cancelled by the time Run returns, and Run returns nil unless the select
\* took a completion record carrying a non-nil, non-cancellation error, in
\* which case Run returns that error or the shutdown timeout wrapping it.
C5_ParentCancelSuccessUnlessErrorRead ==
    (rpc = "done" /\ parent = "canceled") =>
        /\ SubDone /\ subErr = Canceled
        /\ ~(via = "errc" /\ IsFailure(err)) => result = Nil
        /\ (via = "errc" /\ IsFailure(err)) =>
             result \in {err, ShutdownTimeout(err)}

\* C5 witness: the parent was cancelled, a task answered with its own failure,
\* the select took the scope's Done, and Run returned nil.
C5_Witness ==
    /\ rpc = "done" /\ parent = "canceled" /\ via = "ctx" /\ result = Nil
    /\ N >= 2
    /\ \E t \in 1..N : terr[t] = Boom(t) /\ tpc[t] = "done"

\* The stop was external or clean: a signal, the parent's cancellation, or a
\* nil completion record.
PureStop ==
    \/ via = "signal"
    \/ via = "ctx" /\ parent = "canceled"
    \/ via = "errc" /\ err = Nil

\* C6 (as claimed): whenever the adopted cause is a non-nil error returned by
\* a task, Run returns a non-nil error; whenever the stop is external or clean
\* and the drain finishes in time, Run returns nil.
C6_TaskErrorNeverSuccess ==
    rpc = "done" =>
        /\ (via = "errc" /\ err # Nil) => result # Nil
        /\ (PureStop /\ drainExit = "zero") => result = Nil

\* C6 (amended): a task error that neither is nor wraps context.Canceled gives
\* a non-nil result that is or wraps it; a task error that is or wraps
\* context.Canceled gives nil; an external or clean stop whose drain finishes
\* in time gives nil; and Run returns nil only when the adopted cause is nil
\* or is or wraps context.Canceled.
C6_OnlyNonCancellationErrorsSurface ==
    rpc = "done" =>
        /\ (via = "errc" /\ IsFailure(err)) =>
             result \in {err, ShutdownTimeout(err)}
        /\ (via = "errc" /\ err # Nil /\ ErrorsIs(err, Canceled)) => result = Nil
        /\ (PureStop /\ drainExit = "zero") => result = Nil
        /\ result = Nil <=> ~IsFailure(err)

\* C6 witness: the select took a task's record carrying an error that wraps
\* context.Canceled, the drain ended in time, and Run returned nil.
C6_Witness ==
    /\ rpc = "done" /\ via = "errc" /\ err = WrapsCanceled
    /\ drainExit = "zero" /\ result = Nil

\* C7 (as claimed): when the drain deadline elapses with the counter non-zero,
\* Run's result is the shutdown timeout wrapping the adopted cause, or the
\* bare shutdown-timeout error when the cause is nil.
C7_TimeoutAlwaysReported ==
    (rpc = "done" /\ drainExit = "deadline" /\ waitCount > 0) =>
        result = ShutdownTimeout(err)

C9_DrainReportsWhich ==
    rpc = "done" =>
        /\ drainExit = "zero" => (wres = err /\ ~IsShutdownTimeout(wres))
        /\ drainExit = "deadline" => IsShutdownTimeout(wres)

\* C10: the counter equals the number of tasks counted in by the spawn loop
\* whose goroutine has not yet executed its decrement; it is never negative
\* and never above N; every task whose function is running is counted, no
\* task is spawned before it is counted, and none is decremented before its
\* function has returned.
C10_CounterInvariant ==
    /\ waitCount = Cardinality({t \in 1..N : Counted(t) /\ ~Decremented(t)})
    /\ waitCount >= 0 /\ waitCount <= N
    /\ Cardinality({t \in 1..N : tpc[t] = "running"}) <= waitCount
    /\ \A t \in 1..N : tpc[t] # "none" => Counted(t)
    /\ \A t \in 1..N : Decremented(t) => FnReturned(t)

\* C10 witness: of two tasks one has decremented and the other is running.
C10_Witness ==
    /\ N >= 2 /\ waitCount = 1
    /\ \E t \in 1..N : Decremented(t)
    /\ \E t \in 1..N : tpc[t] = "running"

\* C11: the completion channel never holds more than N records, holds at most
\* one record per task that has sent (each the error that task returned, a
\* task's own failure at most once), and a task that is about to send can
\* always send, whatever the supervisor is doing.
C11_PublishOnceNeverBlocks ==
    /\ Len(errc) <= N
    /\ Len(errc) <= NumPublished
    /\ \A k \in 1..Len(errc) : \E t \in 1..N : Published(t) /\ terr[t] = errc[k]
    /\ \A t \in 1..N : Cardinality({k \in 1..Len(errc) : errc[k] = Boom(t)}) <= 1
    /\ \A t \in 1..N :
         tpc[t] = "decremented" => ENABLED TaskPublish(t, "decremented", "done")

\* C11 witness: Run has returned without reading any record, and every task
\* has sent its record since.
C11_Witness ==
    /\ rpc = "done" /\ N >= 2 /\ Len(errc) = N
    /\ \A t \in 1..N : tpc[t] = "done"

\* C13 (as claimed): under the default policy, with N >= 0 tasks that return
\* nil (at least one of them on its own when N >= 1), no signal and the parent
\* live, Run is never stuck in the select (a record is there or still to
\* come), leaves the loop at the first record it reads, cancels the child
\* scope and returns nil.
C13_StopOnFirstExit ==
    ( /\ started /\ ~proceedOnNil
      /\ parent = "live" /\ via # "signal" /\ sigc = << >>
      /\ \A t \in 1..N : FnReturned(t) => terr[t] = Nil
      /\ N = 0 \/ \E t \in 1..N : funcs[t] = "free" )
    => /\ rpc = "select" =>
            \/ Len(errc) > 0
            \/ \E t \in 1..N : tpc[t] = "running" /\ funcs[t] = "free"
            \/ \E t \in 1..N : tpc[t] \in {"returned", "decremented"}
       /\ LoopLeft => (via = "errc" /\ err = Nil /\ NumRead = 1)
       /\ rpc \in {"drain", "done"} => SubDone
       /\ rpc = "done" => result = Nil

\* C14: the child scope is cancelled before the first drain poll and in every
\* state in which Run has returned.
C14_CancelBeforeDrain == rpc \in {"drain", "done"} => SubDone

\* C14 witness: the loop was left on a signal, the scope is cancelled, no poll
\* has been made yet and a task function is still running.
C14_Witness ==
    /\ rpc = "drain" /\ elapsed = 0 /\ via = "signal" /\ SubDone
    /\ \E t \in 1..N : tpc[t] = "running"

\* C15 (as claimed): after the broadcast the cause of the tasks' scope is or
\* wraps the adopted task error, is the parent's cancellation when the scope's
\* Done ended the loop, identifies the received signal when a signal ended
\* it, and carries no error after a clean stop.
C15_CauseIdentifiesStop ==
    rpc \in {"drain", "done"} =>
        /\ (via = "errc" /\ err # Nil) =>
             \E k \in 1..Len(subCause) : SubSeq(subCause, k, Len(subCause)) = err
        /\ via = "ctx" => subCause = subErr
        /\ via = "signal" => \E sig \in Signals : ErrorsIs(subCause, <<sig>>)
        /\ (via = "errc" /\ err = Nil) => subCause \in {Nil, AwaitCause(Nil)}

\* C16: Run's result is nil, the adopted cause, or the shutdown timeout
\* wrapping the adopted cause; under the default policy at most one record is
\* read; the failure of a task whose record was not adopted is no link of the
\* result, and a failure returned after the broadcast is never adopted.
C16_OneErrorSurfaced ==
    /\ rpc = "done" =>
         /\ result \in {Nil, err, <<"await: shutdown timeout">> \o err}
         /\ \A t \in 1..N : err # Boom(t) => ~ErrorsIs(result, Boom(t))
    /\ LoopLeft =>
         /\ NumRead <= N
         /\ ~proceedOnNil => NumRead = (IF via = "errc" THEN 1 ELSE 0)
         /\ \A t \in 1..N :
              (parent = "live" /\ funcs[t] = "ctxbound") => err # Boom(t)

\* C16 witness: both tasks failed, the first one's record was adopted and is
\* Run's result.
C16_Witness ==
    /\ rpc = "done" /\ N >= 2
    /\ terr[1] = Boom(1) /\ terr[2] = Boom(2) /\ tpc[2] = "done"
    /\ err = Boom(1) /\ result = Boom(1)

\* C17 (as claimed): without withSignals no signal reaches Run; with it, once
\* a signal was delivered while Run was in the loop and the tasks have
\* drained, Run returns nil.
C17_SignalEndsLoopWithSuccess ==
    /\ ~withSignals => (~notified /\ sigc = << >> /\ via # "signal")
    /\ ( /\ withSignals /\ rpc = "done" /\ drainExit = "zero"
         /\ via = "signal" \/ Len(sigc) > 0 )
       => result = Nil

\* C17 (amended): without withSignals no subscription exists and no signal
\* reaches Run; with it, a delivered signal makes the signal case of the
\* select ready, and when the select takes it the loop ends with a nil cause,
\* the child scope is cancelled and Run returns nil.
C17_SignalTakenEndsLoop ==
    /\ ~withSignals => (~notified /\ sigc = << >> /\ via # "signal")
    /\ (rpc = "select" /\ Len(sigc) > 0) => ENABLED SelectSignal
    /\ via = "signal" =>
         /\ withSignals /\ LoopLeft /\ err = Nil
         /\ rpc \in {"drain", "done"} => SubDone
         /\ rpc = "done" => result = Nil

\* C17 witness: a signal ended the loop, the task blocked on its scope has
\* returned, and Run returned nil.
C17_Witness ==
    /\ rpc = "done" /\ via = "signal" /\ drainExit = "zero" /\ result = Nil
    /\ \E t \in 1..N : funcs[t] = "ctxbound" /\ tpc[t] = "done"

\* C18 (as claimed): once Run has returned, the signal subscription it
\* installed has been removed.
C18_SubscriptionRemoved == rpc = "done" => ~notified

\* C19: no task function runs before Run has started; the spawn loop starts
\* the tasks in order, each once, so that a task has been started exactly
\* when the loop has passed its index, and after the loop every registered
\* task has been started; nothing beyond the registered tasks is started; the
\* one scope the tasks receive is cancelled whenever Run's parent scope is.
C19_TasksStartOnlyInRun ==
    /\ ~started => \A t \in Tasks : tpc[t] = "none"
    /\ \A t \in 1..N : tpc[t] # "none" <=> (started /\ t < idx)
    /\ \A t \in Tasks : t > N => tpc[t] = "none"
    /\ Spawned => idx = N + 1
    /\ (started /\ parent # "live") => SubDone

\* C19 witness: after the spawn loop both registered tasks are running.
C19_Witness ==
    /\ rpc = "select" /\ N >= 2
    /\ \A t \in 1..N : tpc[t] = "running"

\* C12 (as claimed): once Run has started no Add, AddNamed or Run call
\* succeeds, and every such call, made concurrently with others or after
\* them, can take the mutex and panic: none is left blocked; only the first
\* Run spawns tasks.
C12_MisuseFailsFast ==
    started =>
        /\ ~ENABLED RunStart
        /\ \A f \in AddArgs : ~ENABLED Add(f)
        /\ \A a \in AddNamedArgs : ~ENABLED AddNamed(a[1], a[2])
        /\ \A i \in 1..Len(late) : late[i].st = "locking" => ENABLED LatePanic(i)

\* C20 (as claimed): when the adapter's scope was cancelled before serve
\* returned, the adapter has called Shutdown exactly once, with a context made
\* from context.Background() and the fixed deadline, and returns Shutdown's
\* error if there is one, the cancellation cause of its scope otherwise.
C20_StopOnceThenCause ==
    (apc = "done" /\ cancelFirst) =>
        /\ stopCalls = 1
        /\ cto = [parent |-> "background", timeout |-> ShutdownDeadline]
        /\ ares = (IF stopErr # Nil THEN stopErr ELSE ctxCause)

\* C20 (amended): Shutdown is called at most once, and only by the select's
\* Done case, which is ready whenever the scope is cancelled; it gets a
\* context made from context.Background() with the fixed deadline; the
\* adapter then returns Shutdown's error if there is one, ctx.Err() of its
\* scope otherwise; when the select takes serve's record instead, Shutdown is
\* not called and the adapter returns what serve returned.
C20_StopOnceThenScopeErr ==
    /\ stopCalls <= 1
    /\ (apc = "select" /\ ctxErr # Nil) => ENABLED SelectCtxDone
    /\ stopCalls = 1 <=> (apc = "shutdown" \/ (apc = "done" /\ cto # NoContext))
    /\ stopCalls = 1 =>
         /\ ctxErr # Nil
         /\ cto = [parent |-> "background", timeout |-> ShutdownDeadline]
    /\ (apc = "done" /\ stopCalls = 1) =>
         /\ ares = (IF stopErr # Nil THEN stopErr ELSE ctxErr)
         /\ ares # Nil
    /\ (apc = "done" /\ stopCalls = 0) =>
         (spc = "sent" /\ ares = serveRet /\ serveErrc = << >>)

\* C20 witness: the scope was cancelled by Run after a task error while serve
\* was blocked; Shutdown was called once and succeeded, and the adapter
\* returned context.Canceled, not the broadcast cause.
C20_Witness ==
    /\ apc = "done" /\ cancelFirst /\ stopCalls = 1 /\ stopErr = Nil
    /\ ctxCause = <<"await", "boom1">> /\ ares = Canceled

\* C22 (as claimed): every task whose function has returned has emitted
\* exactly one diagnostic record, with the task's name and the error it
\* returned, whether that error is nil, a cancellation or anything else; a
\* task that has not returned has emitted none.
C22_OneRecordPerCompletion ==
    \A t \in 1..N :
        /\ FnReturned(t) => logs[t] = << [name |-> funcNames[t], err |-> terr[t]] >>
        /\ ~FnReturned(t) => logs[t] = << >>

\* C28: started changes only from FALSE to TRUE, in Run's first step; once it
\* is TRUE the task list and the name list never change; before that they
\* only grow at the end, one element at a time; the two lists always have
\* the same length, and Add stores the empty name.
C28_RegistrationFrozen ==
    [][ /\ started => (started' /\ funcs' = funcs /\ funcNames' = funcNames)
        /\ started' # started => (rpc = "new" /\ rpc' = "inc" /\ funcs' = funcs
                                  /\ funcNames' = funcNames)
        /\ Len(funcs') = Len(funcNames')
        /\ funcs' # funcs =>
             /\ Len(funcs') = Len(funcs) + 1
             /\ SubSeq(funcs', 1, Len(funcs)) = funcs
             /\ SubSeq(funcNames', 1, Len(funcs)) = funcNames
             /\ funcs'[Len(funcs')] \in AddArgs => funcNames'[Len(funcs')] = ""
      ]_vars

\* C28 witness: Run has started on a task added with Add and one added with
\* AddNamed, and a late call has panicked.
C28_Witness ==
    /\ started /\ funcs = <<"free", "ctxbound">> /\ funcNames = <<"", "svc">>
    /\ \E i \in 1..Len(late) : late[i].st = "panicked"

\* C29: when the loop was left on the scope's Done after the parent's
\* deadline expired, Run returns context.DeadlineExceeded, wrapped in the
\* shutdown timeout when the drain ended on its deadline; Run returns nil
\* only for a nil cause or one that is or wraps context.Canceled.
C29_DeadlineIsReported ==
    rpc = "done" =>
        /\ (via = "ctx" /\ parent = "deadline") =>
             /\ err = DeadlineExceeded
             /\ result = (IF drainExit = "deadline"
                            THEN <<"await: shutdown timeout">> \o DeadlineExceeded
                            ELSE DeadlineExceeded)
        /\ result = Nil => (err = Nil \/ ErrorsIs(err, Canceled))

\* C29 witness: the parent's deadline ended the loop and the drain timed out
\* on a task that was still running.
C29_Witness ==
    /\ rpc = "done" /\ via = "ctx" /\ parent = "deadline"
    /\ drainExit = "deadline" /\ \E t \in 1..N : tpc[t] = "running"
    /\ result = <<"await: shutdown timeout", "context deadline exceeded">>

\* C30: under continue-on-nil, with at least one task, all tasks returning
\* nil, no signal and no cancellation of the parent, a started Run eventually
\* returns nil; in particular once every task has published its record Run
\* eventually leaves the select loop.
C30_AllNilEventuallySuccess ==
    /\ (started /\ N >= 1) ~> (rpc = "done" /\ result = Nil)
    /\ (started /\ N >= 1 /\ \A t \in 1..N : Published(t)) ~> LoopLeft

\* C30 witness: Run read the nil records of both tasks, going back to the
\* select after the first, and returned nil.
C30_Witness ==
    /\ rpc = "done" /\ proceedOnNil /\ N >= 2 /\ errc = << >>
    /\ \A t \in 1..N : tpc[t] = "done" /\ terr[t] = Nil
    /\ result = Nil

\* C21: with the adapter as the only task, over a resource whose serve blocks
\* until stopped and whose stop succeeds, once Run has started and the parent
\* scope is cancelled the adapter's task function eventually returns and Run
\* eventually returns; Run's result is always nil.
C21_AdapterReturnsRunSucceeds ==
    /\ (started /\ parent = "canceled") ~> FnReturned(1)
    /\ (started /\ parent = "canceled") ~> (rpc = "done" /\ result = Nil)
    /\ [](rpc = "done" => (parent = "canceled" /\ result = Nil))

\* C21 witness: the parent was cancelled, the adapter stopped the server and
\* returned context.Canceled, and Run returned nil after the drain.
C21_Witness ==
    /\ rpc = "done" /\ funcs = <<"adapter">> /\ parent = "canceled"
    /\ stopCalls = 1 /\ stopErr = Nil /\ ares = Canceled
    /\ tpc[1] = "done" /\ drainExit = "zero" /\ result = Nil

\* C23 (as claimed): in await.go, a runner made by New(WithSignals) has the
\* signal subscription installed once Run has started, so that a signal ends
\* Run through the select instead of ending the process, and a runner made
\* by New(WithStopTimeout(d)) runs with stop timeout d.
C23_OptionsTakeEffect ==
    awStarted =>
        /\ awOpts.signals => (awNotified /\ awPc # "killed")
        /\ (awOpts.signals /\ awPc = "select" /\ Len(awSigc) > 0)
             => ENABLED AwSelectSignal
        /\ awOpts.stopTimeout > 0 => awStopTimeout = awOpts.stopTimeout

\* C27 (as claimed): in await.go, Run is not left waiting in waitOrTimeout
\* once more than the stop timeout has passed since the broadcast.
C27_AwaitDrainBounded == awPc = "wait" => awElapsed <= awStopTimeout

\* The builders LoadConfig left in field i of the config (2: sources,
\* 3: destinations): what each Loader's interface points to.
BuildersOf(c, i) == [j \in DOMAIN c.e.f[i].e |-> c.e.f[i].e[j].f[1].e.e]

\* The elements the input holds for T, and the config field they go to.
ElemsOf(in, T) == IF T = "Source" THEN in.sources ELSE in.destinations
FieldOf(T) == IF T = "Source" THEN 2 ELSE 3

\* What a settable string decoded as x holds after the replacement.
Expanded(x) == IF HasDollarPrefix(x) THEN Getenv(Tail(x)) ELSE x

\* The string values reachable from v through pointers, structs, slices and
\* interfaces, in depth-first order.
RECURSIVE StringsOf(_)
RECURSIVE StringsOfAll(_)
StringsOf(v) ==
    IF v.k = "string" THEN <<v>>
    ELSE IF v.k \in {"ptr", "iface"} THEN StringsOf(v.e)
    ELSE IF v.k = "struct" THEN StringsOfAll(v.f)
    ELSE IF v.k = "slice" THEN StringsOfAll(v.e)
    ELSE << >>
StringsOfAll(vs) ==
    IF vs = << >> THEN << >> ELSE StringsOf(Head(vs)) \o StringsOfAll(Tail(vs))

\* C24: after a successful LoadConfig each list of the config has one
\* builder per input element, in input order, each made by the factory that
\* the registry of the list's T holds under the element's type name (the
\* last one registered under it), which is a factory for that T.
C24_FactoryByTypeName ==
    (lpc = "loaded" /\ lerr = Nil) =>
        \A T \in LoaderTypes :
            LET es == ElemsOf(linput, T)
                bs == BuildersOf(cfg, FieldOf(T))
            IN /\ Len(bs) = Len(es)
               /\ \A j \in 1..Len(es) :
                    /\ es[j].hasType
                    /\ bs[j].by = registry[TypStr(T)][es[j].type]
                    /\ bs[j].by.typ = T
                    /\ bs[j].f[1].v = Expanded(es[j].field)

\* C24 witness: two sources with different type names were built by the two
\* different factories registered under those names, and a destination by
\* the factory for destinations.
C24_Witness ==
    /\ lpc = "loaded" /\ lerr = Nil
    /\ Len(linput.sources) = 2 /\ Len(linput.destinations) = 1
    /\ linput.sources[1].type = "a" /\ linput.sources[2].type = "b"
    /\ BuildersOf(cfg, 2)[1].by.id = "srcConfigB"
    /\ BuildersOf(cfg, 2)[2].by.id = "srcConfigA"
    /\ BuildersOf(cfg, 3)[1].by.id = "dstConfigA"

\* The input is malformed, or one of its elements has no type field, or a
\* type name that the registry of its T does not hold (or there is no
\* registry for its T).
MustFail(in, reg) ==
    \/ in.malformed
    \/ \E T \in LoaderTypes : \E j \in 1..Len(ElemsOf(in, T)) :
         \/ ~ElemsOf(in, T)[j].hasType
         \/ TypStr(T) \notin DOMAIN reg
         \/ ElemsOf(in, T)[j].type \notin DOMAIN reg[TypStr(T)]

\* C25: LoadConfig returns an error exactly when the input is malformed or
\* an element has no type field or a type name that is not registered for
\* its T (nothing registered for T included); then replaceEnv is not called
\* and no string of the config holds a value from the environment; and
\* LoadConfig never changes the registry.
C25_FailedLoadReplacesNothing ==
    /\ [](lpc = "loaded" =>
            /\ MustFail(linput, registry) <=> lerr # Nil
            /\ lerr # Nil =>
                 /\ ~replaced
                 /\ \A i \in 1..Len(StringsOf(cfg)) :
                      StringsOf(cfg)[i].v \in ConfigStrings \cup {<< >>})
    /\ [][lpc' # lpc => registry' = registry]_vars

\* C25 witness: the first source, with a field naming an environment
\* variable, was decoded, the second has a type name nothing is registered
\* under; the load failed and the first source's field still holds "$T".
C25_Witness ==
    /\ lpc = "loaded" /\ lerr # Nil /\ ~replaced
    /\ Len(linput.sources) = 2 /\ linput.sources[2].hasType
    /\ TypStr("Source") \in DOMAIN registry
    /\ linput.sources[2].type \notin DOMAIN registry[TypStr("Source")]
    /\ Len(cfg.e.f[2].e) = 1
    /\ BuildersOf(cfg, 2)[1].f[1].v = DollarT

\* C26: after a successful LoadConfig the config has the strings that were
\* decoded, in the same places; each settable one whose decoded value starts
\* with "$" holds the value of the environment variable named by the rest,
\* and every other string holds its decoded value.
C26_EnvReplaced ==
    (lpc = "loaded" /\ lerr = Nil) =>
        LET old == StringsOf(Unmarshal(linput, registry).cfg)
            new == StringsOf(cfg)
        IN /\ replaced
           /\ Len(new) = Len(old)
           /\ new[1].v = Expanded(linput.name)
           /\ \A i \in 1..Len(old) :
                /\ new[i].set = old[i].set
                /\ new[i].v = (IF old[i].set /\ HasDollarPrefix(old[i].v)
                                 THEN Getenv(Tail(old[i].v))
                                 ELSE old[i].v)

\* C26 witness: the name and the field of a source built by srcConfigB named
\* the variable T and hold its value; the builder's unexported field still
\* holds "$T", and a destination's plain field is as decoded.
C26_Witness ==
    /\ lpc = "loaded" /\ lerr = Nil
    /\ linput.name = DollarT /\ cfg.e.f[1].v = Environ[<<"T">>]
    /\ Len(linput.sources) >= 1 /\ linput.sources[1].field = DollarT
    /\ BuildersOf(cfg, 2)[1].by.id = "srcConfigB"
    /\ BuildersOf(cfg, 2)[1].f[1].v = Environ[<<"T">>]
    /\ BuildersOf(cfg, 2)[1].f[2].v = DollarT
    /\ Len(linput.destinations) = 1
    /\ BuildersOf(cfg, 3)[1].f[1].v = PlainString

\* C31: Run replaces a stop timeout that is zero (unset) or negative by the
\* 10s default and leaves a positive one as configured; so the timeout is
\* positive from then on, the drain's first turn always samples the counter,
\* and Run returns only after a sample (one that read zero, or at least one
\* that did not, followed by the sleep).
C31_DefaultStopTimeout ==
    /\ [][(~started /\ started') =>
            stopTimeout' = (IF stopTimeout <= 0 THEN DefaultStopTimeout
                            ELSE stopTimeout)]_vars
    /\ [][started => stopTimeout' = stopTimeout]_vars
    /\ [](started => stopTimeout > 0)
    /\ []((rpc = "drain" /\ elapsed = 0) =>
            (ENABLED DrainPoll /\ ~ENABLED DrainDeadline))
    /\ [](rpc = "done" => (drainExit = "zero" \/ elapsed >= PollInterval))
    /\ []((rpc = "done" /\ drainExit = "deadline") => elapsed >= stopTimeout)

\* C31 witness: Run was started with an unset or negative stop timeout, the
\* task never returned, and the drain ended on the 10s default after
\* sampling the counter every 100ms.
C31_Witness ==
    /\ rpc = "done" /\ drainExit = "deadline"
    /\ stopTimeout = DefaultStopTimeout
    /\ elapsed = DefaultStopTimeout
    /\ N = 1 /\ tpc[1] = "running"

\* serve returned while the adapter's scope was not cancelled.
ServeReturnedFirst == spc \in {"returned", "sent"} /\ (ctxErr = Nil \/ ~cancelFirst)

\* The serve goroutine never blocks on its send: errc has room for the one
\* record whether the adapter is in its select, in Shutdown or gone.
ServeNeverBlocks ==
    /\ spc = "returned" => ENABLED ServeSend
    /\ Len(serveErrc) <= 1

\* C32 (as claimed): when serve returned before the adapter's scope was
\* cancelled, the adapter returns what serve returned and never calls
\* Shutdown; and the serve goroutine never blocks on its send.
C32_ServeFirstNeverStops ==
    /\ ServeReturnedFirst => stopCalls = 0
    /\ (ServeReturnedFirst /\ apc = "done") => ares = serveRet
    /\ ServeNeverBlocks

\* C32 (amended): when the adapter's select takes serve's record, which is
\* the only ready case as long as the scope is not cancelled, the adapter
\* returns what serve returned and Shutdown has not been called; a scope
\* cancelled after serve returned but before the select took the record
\* makes the Done case ready too, and an adapter that returned after calling
\* Shutdown (once) took that case; and the serve goroutine never blocks on
\* its send.
C32_ServeRecordTakenNeverStops ==
    /\ (apc = "select" /\ ctxErr = Nil) =>
         /\ ~ENABLED SelectCtxDone
         /\ stopCalls = 0
         /\ spc = "sent" => ENABLED SelectServeErr
    /\ (apc = "done" /\ stopCalls = 0) =>
         (spc = "sent" /\ ares = serveRet /\ serveErrc = << >>)
    /\ (apc = "done" /\ ctxErr = Nil) => (stopCalls = 0 /\ ares = serveRet)
    /\ (apc = "done" /\ stopCalls > 0) =>
         (stopCalls = 1 /\ ctxErr # Nil
          /\ ares = (IF stopErr # Nil THEN stopErr ELSE ctxErr))
    /\ ServeNeverBlocks

\* C32 witness: serve failed and sent its error, the scope was cancelled
\* only then, the select took the cancellation, Shutdown was called, and the
\* adapter returned context.Canceled instead of serve's error, which stays
\* in errc.
C32_Witness ==
    /\ apc = "done" /\ ~cancelFirst /\ ctxErr = Canceled
    /\ spc = "sent" /\ serveRet = ListenFailed /\ serveErrc = <<ListenFailed>>
    /\ stopCalls = 1 /\ ares = Canceled

\* --------------------------------------------------------------- rpc claims
\* The calls made on the wrapped writer by who ("app" or "handler").
WrittenBy(who) == SelectSeq(call.rw.wrapped, LAMBDA x : x.by = who)
\* The procedure has been called.
ProcedureCalled == \E i \in 1..Len(call.trace) : call.trace[i] = "procedure"

\* C33: once the procedure has sent a response through the wrapped writer (a
\* status or a body), the handler writes nothing more, on the success path
\* and on the error path: one response per request at most.
C33_AppResponseIsLast == WrittenBy("app") # << >> => WrittenBy("handler") = << >>

\* What holds of the code: the handler is silent once the procedure has
\* written a status.
C33_AppStatusIsLast ==
    (\E i \in 1..Len(call.rw.wrapped) :
        call.rw.wrapped[i].by = "app" /\ call.rw.wrapped[i].op = "WriteHeader")
        => WrittenBy("handler") = << >>

\* The place of a stage in the claimed order; both answers are "respond".
StageRank(s) ==
    CASE s = "decode" -> 1
      [] s = "validate" -> 2
      [] s = "prehook" -> 3
      [] s = "procedure" -> 4
      [] s = "posthook" -> 5
      [] OTHER -> 6
InTrace(s) == \E i \in 1..Len(call.trace) : call.trace[i] = s
\* Decoding, validation or the pre-hook returned an error: handleErr was
\* called right after that stage.
EarlyFailure ==
    \E i \in 2..Len(call.trace) :
        /\ call.trace[i] = "handleErr"
        /\ call.trace[i - 1] \in {"decode", "validate", "prehook"}

\* C34: the handler runs its stages in the order decode, validate, pre-hook,
\* procedure, post-hook, respond; when decoding, validation or the pre-hook
\* fails, the procedure and the post-hook are not invoked and exactly one
\* error response is written.
C34_StagesInOrder ==
    /\ \A i, j \in 1..Len(call.trace) :
           i < j => StageRank(call.trace[i]) < StageRank(call.trace[j])
    /\ (call.pc = "done" /\ ~EarlyFailure) =>
           /\ ProcedureCalled
           /\ call.prehook => InTrace("prehook")
           /\ call.posthook => InTrace("posthook")
    /\ EarlyFailure =>
           /\ call.pc = "done"
           /\ ~ProcedureCalled
           /\ ~InTrace("posthook")
           /\ call.hooked = << >>
           /\ call.rw.wrapped =
                  <<[op |-> "WriteHeader", by |-> "handler", data |-> << >>,
                     code |-> ErrReply(call.err, call.errorRegistry).code],
                    [op |-> "Write", by |-> "handler", code |-> 0,
                     data |-> ErrReply(call.err, call.errorRegistry).data]>>

\* C34 witness: with both hooks configured the pre-hook failed with a user
\* error after decoding and validation; one 400 answer was written.
C34_Witness ==
    /\ call.pc = "done"
    /\ call.prehook /\ call.posthook
    /\ call.trace = <<"decode", "validate", "prehook", "handleErr">>
    /\ call.err = <<"user">>
    /\ call.rw.status = StatusBadRequest
    /\ Len(call.rw.wrapped) = 2

\* What the handler sends for the procedure's resp and err, given what the
\* wrapper holds when the procedure has returned.
AnswerFor(w, rs, e, reg) ==
    IF e # Nil THEN handleErr(w, e, reg)
    ELSE IF w.status # 0 THEN w
    ELSE success(w, rs)

\* C35: when the procedure is invoked and a post-hook is configured, the
\* post-hook is invoked exactly once, after the procedure, with the
\* procedure's response and error, also when the procedure failed; whether
\* the post-hook fails changes neither the status nor the body sent.
C35_PostHookOnceAndHarmless ==
    /\ []((ProcedureCalled /\ call.posthook /\ call.pc \in {"respond", "done"}) =>
            /\ call.hooked = <<(<<call.resp, call.err>>)>>
            /\ \E i \in 2..Len(call.trace) :
                   /\ call.trace[i] = "posthook"
                   /\ call.trace[i - 1] = "procedure"
                   /\ \A j \in 1..Len(call.trace) :
                          call.trace[j] = "posthook" => j = i)
    /\ [](~call.posthook => call.hooked = << >>)
    /\ [][call.pc = "posthook" =>
            /\ call'.rw = call.rw
            /\ call'.resp = call.resp
            /\ call'.err = call.err]_vars
    /\ [][call.pc = "respond" =>
            call'.rw = AnswerFor(call.rw, call.resp, call.err,
                                 call.errorRegistry)]_vars

\* C35 witness: the procedure failed with an auth error, the post-hook was
\* given the zero response and that error and failed itself; the client got
\* the 401 answer.
C35_Witness ==
    /\ call.pc = "done"
    /\ call.posthook
    /\ call.trace = <<"procedure", "posthook", "handleErr">>
    /\ call.err = <<"auth">>
    /\ call.hooked = <<(<<"zero", <<"auth">>>>)>>
    /\ call.e2 = PlainErr
    /\ call.rw.status = StatusUnauthorized
    /\ Len(call.rw.wrapped) = 2

\* The status the built-in mappings give, in their order.
BuiltinStatus(e) ==
    IF HasLink(e, {"auth"}) THEN StatusUnauthorized
    ELSE IF HasLink(e, {"user"}) THEN StatusBadRequest
    ELSE IF HasLink(e, {"canceled"}) THEN StatusServiceUnavailable
    ELSE IF HasLink(e, {"norows"}) THEN StatusBadRequest
    ELSE IF HasLink(e, {"limit"}) THEN StatusUpgradeRequired
    ELSE StatusInternalServerError
\* The registered handlers that match e: those whose type a link of e has.
Matching(e, reg) == SelectSeq(reg, LAMBDA ce : HasLink(e, {ce}))
\* The status as claimed: that of the first matching registered handler,
\* else the built-in one.
ClaimedStatus(e, reg) ==
    IF Matching(e, reg) # << >>
    THEN CustomStatus(Head(Matching(e, reg)))
    ELSE BuiltinStatus(e)
\* handleErr has been called and nothing had been written before.
HandleErrCalledFirst == InTrace("handleErr") /\ WrittenBy("app") = << >>

\* C36: called when no response was sent before, handleErr writes exactly
\* one status: that of a matching registered custom error handler if there is
\* one, else the first match among auth error (401), user error (400),
\* context cancelled (503), no rows (400), limit error (426), else 500.
C36_HandleErrStatus ==
    HandleErrCalledFirst =>
        /\ Len(call.rw.wrapped) = 2
        /\ call.rw.wrapped[1].op = "WriteHeader"
        /\ call.rw.wrapped[2].op = "Write"
        /\ call.rw.wrapped[1].code = ClaimedStatus(call.err, call.errorRegistry)

\* What holds of the code: the claimed mapping whenever every CustomError
\* value in the error is of a registered type and the first of them is the
\* first registered, and in particular when the error holds none and when
\* nothing is registered and the error holds none.
C36_StatusWithoutForeignCustom ==
    (/\ HandleErrCalledFirst
     /\ \/ ~HasLink(call.err, CustomLinks)
        \/ /\ call.errorRegistry # << >>
           /\ FirstLink(call.err, CustomLinks) = Head(call.errorRegistry)) =>
        /\ Len(call.rw.wrapped) = 2
        /\ call.rw.wrapped[1].code = ClaimedStatus(call.err, call.errorRegistry)

====
